---- MODULE Spec2Model ----
(***************************************************************************)
(* Offline synchronisation subsystem of the POS application:               *)
(*   - LocalStorageService  (operation queue and SyncState in IndexedDB)   *)
(*   - OfflineManager       (connectivity monitor and sync engine)         *)
(*   - useAutoSync          (second client push path, a React hook)        *)
(*   - useOfflineMutation   (offline mutation path)                        *)
(*   - POST /api/sync/batch-push (server-side batch processor)             *)
(*   - detectConflict and POST /api/sync/conflicts/[id]/resolve            *)
(*   - useOfflineData       (data-access hooks with local fallback)        *)
(* The event loop is single threaded: every action below is the code that  *)
(* runs from one event (a call, a timer, the answer to a fetch) up to the  *)
(* next await of a fetch; the IndexedDB requests awaited on the way are    *)
(* taken to complete before another handler runs.  StateSpec drops that    *)
(* simplification for updateSyncState, and the requests of the conflict    *)
(* store are split at their database writes.                               *)
(***************************************************************************)
EXTENDS Integers, Sequences, FiniteSets, TLC

----------------------------------------------------------------------------
(* Bounds of the model *)

\* operations ever enqueued
MaxOps == 3
\* CONFIG.BATCH_SIZE of OfflineManager (50 in the source), scaled down so
\* that a queue of MaxOps operations needs more than one batch
BATCH_SIZE == 2
\* syncAll invocations that can be in flight at once
MaxPasses == 2
\* faults in a run: a request or an answer lost by the network, a pass that
\* outlives its 60 s safety timeout
MaxFaults == 1
MaxServed == 2
\* requests the conflict store serves at a time
MaxRequests == 2
\* conflict records ever created
MaxConflicts == 2
\* calls of updateSyncState in flight at a time
MaxWrites == 2
\* fetches one useOfflineData hook has in flight at a time
MaxFetching == 2
\* requests to the pull and push endpoints in a run
MaxSyncRequests == 3
\* highest value of a version counter
MaxVersion == 3
\* highest retryCount that is told apart
MaxRetryCount == 4
\* highest count in the result of a pass that is told apart
MaxCounted == 8

----------------------------------------------------------------------------
(* Values *)

\* the hook's push path is sender 0, syncAll invocation p is sender p
Hook == 0

Passes == 1..MaxPasses

Senders == {Hook} \cup Passes

\* the branch the device belongs to; "" is OfflineManager.branchId before
\* initialize()
Branch == "B1"

\* another branch of the chain
OtherBranch == "B2"

\* the client's OperationType enumeration
OperationType ==
  {"CREATE_ORDER", "UPDATE_ORDER", "CREATE_INVENTORY", "UPDATE_INVENTORY",
   "CREATE_WASTE", "CREATE_SHIFT", "UPDATE_SHIFT", "UPDATE_USER",
   "CREATE_CUSTOMER", "UPDATE_CUSTOMER", "CREATE_CUSTOMER_ADDRESS",
   "CREATE_COURIER", "UPDATE_COURIER", "CREATE_DELIVERY_AREA",
   "UPDATE_DELIVERY_AREA"}

\* members of the client's OperationType enumeration that the model enqueues
ClientOpTypes == {"CREATE_ORDER", "CREATE_INVENTORY", "CREATE_SHIFT"}

\* ingredient rows of the authoritative store
Ingredients == {"ing1"}

\* data.ingredientId values a CREATE_INVENTORY payload can carry
IngredientRefs == {"ing1", "missing"}

\* order of the type part of an operation id inside the IndexedDB key order
TypeRank(t) ==
  CASE t = "CREATE_INVENTORY" -> 1
    [] t = "CREATE_ORDER" -> 2
    [] t = "CREATE_SHIFT" -> 3
    [] OTHER -> 4

\* payload of the n-th mutation of the device.  Orders and inventory rows
\* carry a stable client id, a shift opened offline carries a placeholder id.
Payload(type, n, ing) ==
  CASE type = "CREATE_ORDER" -> [id |-> <<"id", n>>, ingredientId |-> "none"]
    [] type = "CREATE_INVENTORY" -> [id |-> <<"id", n>>, ingredientId |-> ing]
    [] OTHER -> [id |-> <<"temp-", n>>, ingredientId |-> "none"]

\* data.id.startsWith('temp-')
StartsWithTemp(id) == id[1] = "temp-"

\* SyncResult of a pass that has not pushed anything yet
EmptyResult ==
  [success |-> TRUE, operationsProcessed |-> 0, operationsFailed |-> 0, errors |-> 0]

\* a fetch that threw, or an answer that is not a 2xx
NoResponse ==
  [ok |-> FALSE, success |-> FALSE, processed |-> 0, failed |-> 0,
   failedIds |-> <<>>, errors |-> 0]

\* no request
NoBatch == [branchId |-> "", operations |-> <<>>]

----------------------------------------------------------------------------
(* State *)

Min(a, b) == IF a < b THEN a ELSE b

\* set of the elements of a sequence
Range(s) == {s[i] : i \in 1..Len(s)}

VARIABLES
  now,               \* Date.now(), observed when an operation is enqueued
  nextSeq,           \* number of operations enqueued so far
  operations,        \* IndexedDB store 'operations' (keyPath id)
  syncState,         \* IndexedDB store 'sync_state', record 'current'
  navigatorOnLine,   \* navigator.onLine, the browser's connectivity flag
  isOnline,          \* OfflineManager.isOnline
  isSyncing,         \* OfflineManager.isSyncing, the sync lock
  syncStatus,        \* the status of the last notifyListeners call
  syncInterval,      \* OfflineManager.syncInterval is set (timer running)
  skipFirstAutoSync, \* OfflineManager.skipFirstAutoSync
  branchId,          \* OfflineManager.branchId
  initialized,       \* OfflineManager.initialized
  pc,                \* position of each syncAll invocation and of the hook
  batch,             \* operations of the batch-push request of each sender
  result,            \* SyncResult accumulated by pushOperations
  timeoutArmed,      \* the 60 s safety timeout of a syncAll invocation is pending
  rows,              \* authoritative store of the server
  nextGen,           \* ids generated by the authoritative store so far
  applied,           \* history: successful applications of each mutation
  attempted,         \* history: mutations the batch processor has attempted
  faults,            \* faults so far (see MaxFaults)
  served,            \* batch-push requests processed so far
  mut,               \* the call of useOfflineMutation's mutate in progress
  initializationPromise, \* OfflineManager.initializationPromise
  initLog,           \* history: runs of the body of initialize, last branch asked for
  lastPullAttempt,   \* history: outcome of the last pull request sent
  conflicts,         \* table syncConflict of the authoritative store
  entities,          \* the authoritative records a conflict can be about
  reqs,              \* detectConflict calls and resolve requests in progress
  syncWrites,        \* updateSyncState calls between their read and their put
  cached,            \* the resources held by the local store of the device
  view,              \* what each useOfflineData hook returns to its component
  versions,          \* the version counters of each row of the branch table
  syncHistory,       \* table syncHistory of the server
  calls              \* the pull and push requests and their responses

vars ==
  <<now, nextSeq, operations, syncState, navigatorOnLine, isOnline, isSyncing, syncStatus,
    syncInterval, skipFirstAutoSync, branchId, initialized, pc, batch,
    result, timeoutArmed, rows, nextGen, applied, attempted, faults, served,
    mut, initializationPromise, initLog, lastPullAttempt, conflicts, entities,
    reqs, syncWrites, cached, view, versions, syncHistory, calls>>

clientVars ==
  <<navigatorOnLine, isOnline, syncInterval, skipFirstAutoSync, branchId,
    initialized>>

serverVars == <<rows, nextGen, applied, attempted, served>>

initVars == <<initializationPromise, initLog>>

conflictVars == <<conflicts, entities, reqs>>

\* the state outside the sync engine and the batch processor
\* the branch table's version counters, the sync history, the pull and push
\* requests
pullVars == <<versions, syncHistory, calls>>

otherVars == <<conflictVars, syncWrites, cached, view, pullVars>>

----------------------------------------------------------------------------
(* LocalStorageService *)

\* put(): insert, or replace the record with the same key
Put(store, rec) == {o \in store : o.id /= rec.id} \cup {rec}

\* delete(): remove the record with the key, if any
Delete(store, id) == {o \in store : o.id /= id}

\* key order of the 'timestamp' index: timestamp, then primary key
IndexBefore(a, b) ==
  \/ a.timestamp < b.timestamp
  \/ /\ a.timestamp = b.timestamp
     /\ \/ TypeRank(a.type) < TypeRank(b.type)
        \/ /\ TypeRank(a.type) = TypeRank(b.type)
           /\ a.id[3] < b.id[3]

RECURSIVE IndexGetAll(_)
\* index.getAll(): every record of the store in index order
IndexGetAll(store) ==
  IF store = {} THEN <<>>
  ELSE LET first == CHOOSE o \in store : \A q \in store \ {o} : IndexBefore(o, q)
       IN <<first>> \o IndexGetAll(store \ {first})

RECURSIVE InsertSorted(_, _)
\* insertion step of a stable sort by a.timestamp - b.timestamp
InsertSorted(o, s) ==
  IF s = <<>> THEN <<o>>
  ELSE IF Head(s).timestamp > o.timestamp THEN <<o>> \o s
       ELSE <<Head(s)>> \o InsertSorted(o, Tail(s))

RECURSIVE SortByTimestamp(_)
\* operations.sort((a, b) => a.timestamp - b.timestamp), a stable sort
SortByTimestamp(s) ==
  IF s = <<>> THEN <<>>
  ELSE InsertSorted(s[Len(s)], SortByTimestamp(SubSeq(s, 1, Len(s) - 1)))

\* getPendingOperations(): the queue read through the timestamp index, sorted
getPendingOperations(store) == SortByTimestamp(IndexGetAll(store))

\* getPendingOperationsCount()
getPendingOperationsCount(store) == Len(getPendingOperations(store))

\* addOperation(): id composed of type, time and a random suffix (the suffix is
\* modelled by the number of the mutation, which is unique as well)
addOperation(store, type, data, branch, time, n) ==
  Put(store, [id |-> <<type, time, n>>, type |-> type, data |-> data,
              timestamp |-> time, retryCount |-> 0, branchId |-> branch])

\* getSyncState() before the first updateSyncState: no record
NullSyncState ==
  [exists |-> FALSE, lastPull |-> "never", lastPushTimestamp |-> 0,
   pendingOperations |-> 0, isOnline |-> FALSE, branchId |-> "",
   lastPullFailed |-> "undefined"]

\* updateSyncState(updates): the new record is built from four fields of the
\* current one, navigator.onLine and the updates; lastPullFailed is kept only
\* when the updates name it
updateSyncState(cur, updates, navOnline) ==
  LET base == [exists |-> TRUE,
               lastPull |-> cur.lastPull,
               lastPushTimestamp |-> cur.lastPushTimestamp,
               pendingOperations |-> cur.pendingOperations,
               isOnline |-> navOnline,
               branchId |-> cur.branchId,
               lastPullFailed |-> "undefined"]
  IN [f \in DOMAIN base |-> IF f \in DOMAIN updates THEN updates[f] ELSE base[f]]

----------------------------------------------------------------------------
(* Server-side batch processor: POST /api/sync/batch-push *)

\* number of the mutation a payload belongs to (history only)
MutationOf(data) == data.id[2]

\* db.<table>.create with an explicit id: a unique-constraint error when a
\* row with that id exists
IdTaken(store, table, id) == \E r \in store : r.table = table /\ r.id = id

\* createOrder: db.order.create with id: data.id
createOrder(data, st) ==
  IF IdTaken(st.rows, "order", data.id)
  THEN [ok |-> FALSE, rows |-> st.rows, nextGen |-> st.nextGen]
  ELSE [ok |-> TRUE,
        rows |-> st.rows \cup {[table |-> "order", id |-> data.id, data |-> data]},
        nextGen |-> st.nextGen]

\* createInventory: db.inventory.create with id: data.id and the foreign key
\* ingredientId: data.ingredientId
createInventory(data, st) ==
  IF IdTaken(st.rows, "inventory", data.id) \/ data.ingredientId \notin Ingredients
  THEN [ok |-> FALSE, rows |-> st.rows, nextGen |-> st.nextGen]
  ELSE [ok |-> TRUE,
        rows |-> st.rows \cup {[table |-> "inventory", id |-> data.id, data |-> data]},
        nextGen |-> st.nextGen]

\* createShift: the id of the payload is used unless it starts with 'temp-',
\* then the store generates the id
createShift(data, st) ==
  IF StartsWithTemp(data.id)
  THEN [ok |-> TRUE,
        rows |-> st.rows \cup
                 {[table |-> "shift", id |-> <<"gen", st.nextGen + 1>>, data |-> data]},
        nextGen |-> st.nextGen + 1]
  ELSE IF IdTaken(st.rows, "shift", data.id)
       THEN [ok |-> FALSE, rows |-> st.rows, nextGen |-> st.nextGen]
       ELSE [ok |-> TRUE,
             rows |-> st.rows \cup {[table |-> "shift", id |-> data.id, data |-> data]},
             nextGen |-> st.nextGen]

\* createWaste: db.wasteLog.create with id: data.id
createWaste(data, st) ==
  IF IdTaken(st.rows, "wasteLog", data.id)
  THEN [ok |-> FALSE, rows |-> st.rows, nextGen |-> st.nextGen]
  ELSE [ok |-> TRUE,
        rows |-> st.rows \cup {[table |-> "wasteLog", id |-> data.id, data |-> data]},
        nextGen |-> st.nextGen]

\* updateOrder, updateInventory, updateShift, updateUser: db.<table>.update
\* where id: data.id, which throws when there is no such row
updateRow(table, data, st) ==
  IF IdTaken(st.rows, table, data.id)
  THEN [ok |-> TRUE,
        rows |-> {r \in st.rows : ~(r.table = table /\ r.id = data.id)}
                 \cup {[table |-> table, id |-> data.id, data |-> data]},
        nextGen |-> st.nextGen]
  ELSE [ok |-> FALSE, rows |-> st.rows, nextGen |-> st.nextGen]

\* the operation types of the server: the cases of the switch of processOperation
ServerOperationType ==
  {"CREATE_ORDER", "UPDATE_ORDER", "CREATE_INVENTORY", "UPDATE_INVENTORY",
   "CREATE_WASTE", "CREATE_SHIFT", "UPDATE_SHIFT", "UPDATE_USER"}

\* processOperation: the handler of the type; an unknown type throws
processOperation(op, st) ==
  CASE op.type = "CREATE_ORDER" -> createOrder(op.data, st)
    [] op.type = "UPDATE_ORDER" -> updateRow("order", op.data, st)
    [] op.type = "CREATE_INVENTORY" -> createInventory(op.data, st)
    [] op.type = "UPDATE_INVENTORY" -> updateRow("inventory", op.data, st)
    [] op.type = "CREATE_WASTE" -> createWaste(op.data, st)
    [] op.type = "CREATE_SHIFT" -> createShift(op.data, st)
    [] op.type = "UPDATE_SHIFT" -> updateRow("shift", op.data, st)
    [] op.type = "UPDATE_USER" -> updateRow("user", op.data, st)
    [] OTHER -> [ok |-> FALSE, rows |-> st.rows, nextGen |-> st.nextGen]

RECURSIVE ProcessFrom(_, _, _)
\* variant of ProcessFrom whose loop ends at the first operation that fails
ProcessFromStopsAtFailure(ops, i, acc) ==
  IF i > Len(ops) THEN acc
  ELSE LET r == processOperation(ops[i], [rows |-> acc.rows, nextGen |-> acc.nextGen])
           n == MutationOf(ops[i].data)
       IN IF r.ok
          THEN ProcessFrom(ops, i + 1,
                 [acc EXCEPT !.rows = r.rows, !.nextGen = r.nextGen,
                             !.processed = @ + 1,
                             !.applied = [@ EXCEPT ![n] = @ + 1],
                             !.attempted = @ \cup {n},
                             !.outcome = Append(@, TRUE)])
          ELSE [acc EXCEPT !.failed = @ + 1,
                           !.failedIds = Append(@, <<"op", i - 1>>),
                           !.errors = @ + 1,
                           !.attempted = @ \cup {n},
                           !.outcome = Append(@, FALSE)]

\* the loop of POST over operations[i..]; acc carries the store, the results
\* object and the history of attempts and of successful applications
ProcessFrom(ops, i, acc) ==
  IF i > Len(ops) THEN acc
  ELSE LET r == processOperation(ops[i], [rows |-> acc.rows, nextGen |-> acc.nextGen])
           n == MutationOf(ops[i].data)
       IN IF r.ok
          THEN ProcessFrom(ops, i + 1,
                 [acc EXCEPT !.rows = r.rows, !.nextGen = r.nextGen,
                             !.processed = @ + 1,
                             !.applied = [@ EXCEPT ![n] = @ + 1],
                             !.attempted = @ \cup {n},
                             !.outcome = Append(@, TRUE)])
          ELSE ProcessFrom(ops, i + 1,
                 [acc EXCEPT !.failed = @ + 1,
                             !.failedIds = Append(@, <<"op", i - 1>>),
                             !.errors = @ + 1,
                             !.attempted = @ \cup {n},
                             !.outcome = Append(@, FALSE)])

\* POST: the whole request against the current store
BatchPush(ops, store, gen, hist, tried) ==
  ProcessFrom(ops, 1,
    [rows |-> store, nextGen |-> gen, applied |-> hist, attempted |-> tried,
     processed |-> 0, failed |-> 0, failedIds |-> <<>>, errors |-> 0,
     outcome |-> <<>>])

\* the JSON body of the 200 answer
BatchPushResponse(r) ==
  [ok |-> TRUE, success |-> (r.failed = 0), processed |-> r.processed,
   failed |-> r.failed, failedIds |-> r.failedIds, errors |-> r.errors]

----------------------------------------------------------------------------
(* The network between the device and the server *)

\* branches of the authoritative store
Branches == {Branch, OtherBranch}

\* what can happen to a request: it is answered, it is lost before it reaches
\* the server, or it is processed and the answer is lost
NetOutcomes == {"ok", "request_lost", "response_lost"}

\* the store of the server after, and the answer the client sees to, a
\* batch-push request req: 400 without a branch id, 404 for an unknown branch,
\* otherwise the 200 answer of the batch processor; fetch throws when the
\* request or the answer is lost
Fetch(req, net) ==
  IF net = "request_lost" \/ req.branchId \notin Branches
  THEN [resp |-> NoResponse, rows |-> rows, nextGen |-> nextGen, applied |-> applied,
        attempted |-> attempted]
  ELSE LET r == BatchPush(req.operations, rows, nextGen, applied, attempted)
       IN [resp |-> IF net = "ok" THEN BatchPushResponse(r) ELSE NoResponse,
           rows |-> r.rows, nextGen |-> r.nextGen, applied |-> r.applied,
           attempted |-> r.attempted]

\* the bounds of the model on network failures and on processed requests
CanFetch(net) ==
  /\ net /= "ok" => faults < MaxFaults
  /\ net /= "request_lost" => served < MaxServed

\* the counters behind the bounds
Counted(net) ==
  /\ faults' = IF net /= "ok" THEN faults + 1 ELSE faults
  /\ served' = IF net /= "request_lost" THEN served + 1 ELSE served

----------------------------------------------------------------------------
(* The conflict store of the server: detectConflict, the resolve endpoint *)

\* the entity types of getEntityByType, on which checkForConflicts records
\* conflicts
EntityTypes == {"MenuItem", "Ingredient", "Recipe", "Category", "User", "BranchInventory"}

\* the entity types the branches of the model report: one with a relation,
\* the one without a case in applyMergedData, the one with a password hash
ReportedTypes == {"Recipe", "Category", "User"}

\* the entity types with a case in applyMergedData
MergedTypes == {"MenuItem", "Ingredient", "Recipe", "User", "BranchInventory"}

\* the one entity of each type in the model
EntityId == "e1"

\* the keys isDataEqual leaves out
TimestampFields == {"createdAt", "updatedAt", "lastSyncAt"}

\* the fields of a record of the type in the model: its identity and audit
\* fields, one ordinary column (name), the password hash of a user, and one
\* navigational object of the types that are read with their relations
Fields(type) ==
  {"id", "createdAt", "updatedAt", "name"}
    \cup (IF type = "User" THEN {"passwordHash"} ELSE {})
    \cup (IF type = "Recipe" THEN {"menuItem"} ELSE {})
    \cup (IF type = "BranchInventory" THEN {"branch"} ELSE {})

\* the fields a merge must not overwrite
ProtectedFields == {"id", "createdAt", "passwordHash", "menuItem", "branch"}

\* the keys applyMergedData takes out of the data before the update
Stripped(type) ==
  CASE type \in {"MenuItem", "Ingredient"} -> {"id", "createdAt", "updatedAt"}
    [] type = "Recipe" ->
         {"id", "createdAt", "updatedAt", "menuItem", "ingredient", "variant"}
    [] type = "User" -> {"id", "createdAt", "updatedAt", "passwordHash"}
    [] type = "BranchInventory" ->
         {"id", "createdAt", "updatedAt", "branch", "ingredient", "modifier",
          "transferItemsAsSource", "transferItemsAsTarget"}
    [] OTHER -> {}

\* the authoritative record of the type before any merge
CentralRecord(type) ==
  [f \in Fields(type) |-> IF f = "id" THEN EntityId ELSE "central"]

\* a copy of the central record in which the fields in changed carry value
Edited(type, changed, value) ==
  [f \in Fields(type) |-> IF f \in changed THEN value ELSE CentralRecord(type)[f]]

\* the payloads a branch sends for the entity: only the timestamp differs,
\* every field differs
BranchPayloads(type) ==
  {Edited(type, changed, "branch") : changed \in {{"updatedAt"}, Fields(type)}}

\* the mergedData of a MANUAL_MERGE request: absent, or a full record
NoData == [absent |-> TRUE]

MergedInputs(type) == {NoData, Edited(type, Fields(type), "merged")}

\* isDataEqual on two records: the keys outside the timestamp fields must be
\* the same and carry equal values
isDataEqual(obj1, obj2) ==
  LET keys1 == DOMAIN obj1 \ TimestampFields
      keys2 == DOMAIN obj2 \ TimestampFields
  IN /\ Cardinality(keys1) = Cardinality(keys2)
     /\ \A key \in keys1 : key \in keys2 /\ obj1[key] = obj2[key]

\* variant of applyMergedData that updates the record with the data as it is
applyMergedDataUnfiltered(type, entity, data) ==
  IF type \in MergedTypes
  THEN [f \in DOMAIN entity |-> IF f \in DOMAIN data THEN data[f] ELSE entity[f]]
  ELSE entity

\* applyMergedData: db.<type>.update of the entity with the data left after
\* the keys of the type are taken out; a type without a case is only logged
applyMergedData(type, entity, data) ==
  IF type \in MergedTypes
  THEN [f \in DOMAIN entity |->
          IF f \in DOMAIN data \ Stripped(type) THEN data[f] ELSE entity[f]]
  ELSE entity

\* the requests the conflict store serves at a time
Requests == 1..MaxRequests

\* a request slot that is free; answer is what the last request got
FreeSlot(answer) ==
  [kind |-> "none", pc |-> "idle", branchId |-> "", entityType |-> "",
   payload |-> NoData, conflictId |-> 0, resolution |-> "", answer |-> answer]

\* the unresolved conflicts findFirst can return to detectConflict
ExistingConflicts(b, type) ==
  {c \in conflicts :
     /\ c.branchId = b
     /\ c.entityType = type
     /\ c.entityId = EntityId
     /\ c.resolvedAt = 0}

\* conflict records created so far or about to be created
CreationsStarted ==
  Cardinality(conflicts) + Cardinality({r \in Requests : reqs[r].pc = "create"})

\* detectConflict(b, type, EntityId, payload, central record) up to its
\* db.syncConflict.create: the open conflict is looked up, then the two
\* payloads are compared
DetectStart(r, b, type, payload) ==
  /\ reqs[r].pc = "idle"
  /\ CreationsStarted < MaxConflicts
  /\ reqs' = [reqs EXCEPT ![r] =
       IF ExistingConflicts(b, type) /= {} THEN FreeSlot("true")
       ELSE IF isDataEqual(payload, entities[type]) THEN FreeSlot("false")
       ELSE [kind |-> "detect", pc |-> "create", branchId |-> b, entityType |-> type,
             payload |-> payload, conflictId |-> 0, resolution |-> "",
             answer |-> "none"]]
  /\ UNCHANGED <<conflicts, entities>>

\* db.syncConflict.create of detectConflict, which then returns true
DetectCreate(r) ==
  /\ reqs[r].pc = "create"
  /\ conflicts' = conflicts \cup
       {[id |-> Cardinality(conflicts) + 1, branchId |-> reqs[r].branchId,
         entityType |-> reqs[r].entityType, entityId |-> EntityId,
         branchPayload |-> reqs[r].payload,
         resolvedAt |-> 0, resolvedBy |-> 0, resolution |-> ""]}
  /\ reqs' = [reqs EXCEPT ![r] = FreeSlot("true")]
  /\ UNCHANGED entities

Resolutions == {"ACCEPT_BRANCH", "ACCEPT_CENTRAL", "MANUAL_MERGE"}

\* POST /api/sync/conflicts/[id]/resolve up to resolveConflict: the conflict
\* is read; 404 when there is none, 400 when it is resolved already
ResolveStart(r, id, resolution, mergedData) ==
  /\ reqs[r].pc = "idle"
  /\ reqs' = [reqs EXCEPT ![r] =
       IF ~ \E c \in conflicts : c.id = id THEN FreeSlot("404")
       ELSE LET c == CHOOSE c \in conflicts : c.id = id
            IN IF c.resolvedAt /= 0 THEN FreeSlot("400")
               ELSE [kind |-> "resolve", pc |-> "update", branchId |-> c.branchId,
                     entityType |-> c.entityType, payload |-> mergedData,
                     conflictId |-> id, resolution |-> resolution,
                     answer |-> "none"]]
  /\ UNCHANGED <<conflicts, entities>>

\* the data the resolve endpoint applies to the entity, NoData when none
DataToApply(resolution, mergedData, branchPayload) ==
  IF resolution = "MANUAL_MERGE" /\ mergedData /= NoData THEN mergedData
  ELSE IF resolution = "ACCEPT_BRANCH" THEN branchPayload
  ELSE NoData

\* the rest of the resolve endpoint: resolveConflict stamps the record
\* (resolvedAt and resolvedBy are those of request r), then the data of the
\* resolution is applied to the entity, and the request is answered 200.
\* With applyThrows the update of the entity by applyMergedData throws (the
\* entity is gone, the database refuses the data): the catch block answers 500
ResolveEnd(r, applyThrows) ==
  /\ reqs[r].pc = "update"
  /\ LET c == CHOOSE c \in conflicts : c.id = reqs[r].conflictId
         data == DataToApply(reqs[r].resolution, reqs[r].payload, c.branchPayload)
     IN /\ applyThrows => data /= NoData /\ c.entityType \in MergedTypes
        /\ conflicts' = (conflicts \ {c}) \cup
             {[c EXCEPT !.resolvedAt = r, !.resolvedBy = r,
                        !.resolution = reqs[r].resolution]}
        /\ entities' =
             IF data = NoData \/ applyThrows THEN entities
             ELSE [entities EXCEPT ![c.entityType] =
                     applyMergedData(c.entityType, @, data)]
  /\ reqs' = [reqs EXCEPT ![r] = FreeSlot(IF applyThrows THEN "500" ELSE "200")]

\* a resolve request whose update of the entity succeeds
ResolveFinish(r) == ResolveEnd(r, FALSE)

----------------------------------------------------------------------------
(* The data-access facade: the two useOfflineData hooks *)

\* the hook of src/hooks/use-offline-data.ts (fetchFromDB given, an endpoint
\* whose answers are cached) and the hook of part_007 (storageKey given)
Facades == {"use-offline-data", "part_007"}

\* the data of the resource as the API serves it
ServerData == "d1"

\* what a fetch of the resource ends with: a 2xx answer, an answer with
\* another status, no answer (fetch rejects with 'Failed to fetch')
FetchOutcomes == {"ok", "API error", "Failed to fetch"}

\* the state of a hook before its first fetchData
InitialView(h, navOnline) ==
  [data |-> IF h = "use-offline-data" THEN "null" ELSE "empty",
   loading |-> TRUE, error |-> "null",
   isOffline |-> IF h = "use-offline-data" THEN ~navOnline ELSE FALSE,
   fetching |-> 0]

\* fetchData of a hook up to its fetch; offline (navigator.onLine for the
\* first hook, offlineManager.isCurrentlyOnline() for the second) the local
\* store is read instead and fetchData returns
fetchDataStart(h, v, navOnline, mgrOnline, store) ==
  IF h = "use-offline-data"
  THEN IF navOnline
       THEN [v EXCEPT !.loading = TRUE, !.error = "null", !.fetching = @ + 1]
       ELSE [v EXCEPT !.loading = FALSE, !.error = "null",
                      !.data = IF store /= "null" THEN store ELSE @]
  ELSE IF mgrOnline
       THEN [v EXCEPT !.loading = TRUE, !.error = "null", !.isOffline = FALSE,
                      !.fetching = @ + 1]
       ELSE [v EXCEPT !.loading = FALSE, !.isOffline = TRUE,
                      !.data = IF store /= "null" THEN store ELSE @,
                      !.error = IF store /= "null" THEN "null"
                                ELSE "No cached data available offline"]

\* the rest of fetchData once the fetch has ended: the data of a 2xx answer
\* is shown; after a failure the first hook shows the local data when there
\* is some and sets the error only when there is none and the failure is not
\* a network error; the second hook shows the local data with a notice when
\* the manager is online, and the error message otherwise
fetchDataEnd(h, v, outcome, mgrOnline, store) ==
  IF outcome = "ok"
  THEN [v EXCEPT !.data = ServerData, !.loading = FALSE, !.fetching = @ - 1]
  ELSE IF h = "use-offline-data"
  THEN [v EXCEPT !.loading = FALSE, !.fetching = @ - 1,
                 !.data = IF store /= "null" THEN store ELSE @,
                 !.error = IF store = "null" /\ outcome /= "Failed to fetch"
                           THEN outcome ELSE @]
  ELSE IF mgrOnline /\ store /= "null"
       THEN [v EXCEPT !.loading = FALSE, !.fetching = @ - 1, !.data = store,
                      !.error = "Using cached data (API unavailable)"]
       ELSE [v EXCEPT !.loading = FALSE, !.fetching = @ - 1, !.error = outcome]

\* fetchData() is called (mount, refetch, a changed dependency)
FetchStart(h) ==
  /\ view[h].fetching < MaxFetching
  /\ view' = [view EXCEPT ![h] =
                fetchDataStart(h, @, navigatorOnLine, isOnline, cached)]
  /\ UNCHANGED <<cached, navigatorOnLine, isOnline>>

\* a fetch of fetchData ends; a 2xx answer is saved to the local store
FetchReturn(h, outcome) ==
  /\ view[h].fetching > 0
  /\ view' = [view EXCEPT ![h] = fetchDataEnd(h, @, outcome, isOnline, cached)]
  /\ cached' = IF outcome = "ok" THEN ServerData ELSE cached
  /\ UNCHANGED <<navigatorOnLine, isOnline>>

\* the browser goes offline: handleOffline of the first hook
WindowOffline ==
  /\ navigatorOnLine
  /\ navigatorOnLine' = FALSE
  /\ view' = [view EXCEPT !["use-offline-data"].isOffline = TRUE]
  /\ UNCHANGED <<cached, isOnline>>

\* the browser comes back: handleOnline of the first hook, which refetches
WindowOnline ==
  /\ ~navigatorOnLine
  /\ view["use-offline-data"].fetching < MaxFetching
  /\ navigatorOnLine' = TRUE
  /\ view' = [view EXCEPT !["use-offline-data"] =
                fetchDataStart("use-offline-data", [@ EXCEPT !.isOffline = FALSE],
                               TRUE, isOnline, cached)]
  /\ UNCHANGED <<cached, isOnline>>

\* OfflineManager notifies OFFLINE (online = FALSE) or IDLE after a confirmed
\* reconnection (online = TRUE): handleStatusChange of the second hook, whose
\* refetch is not taken because the manager is online by then
ManagerStatus(online) ==
  /\ isOnline /= online
  /\ isOnline' = online
  /\ view' = [view EXCEPT !["part_007"].isOffline = ~online]
  /\ UNCHANGED <<cached, navigatorOnLine>>

\* OfflineManager.clearAllData(): every store of the local database is
\* cleared, the queue and the sync state record included, and a sync state
\* record is written anew
ClearAllData ==
  /\ cached' = "null"
  /\ operations' = {}
  /\ syncState' =
       updateSyncState(NullSyncState,
         [branchId |-> branchId, isOnline |-> isOnline, lastPull |-> "never",
          lastPushTimestamp |-> 0, pendingOperations |-> 0],
         navigatorOnLine)
  /\ UNCHANGED <<view, navigatorOnLine, isOnline>>

----------------------------------------------------------------------------
(* The sync endpoints of the server: POST /api/sync/pull, POST /api/sync/push *)

\* the version counters of a branch the model keeps: the one that gates
\* categories and menu items and the one that gates users (pricingVersion,
\* recipeVersion and ingredientVersion are gated the same way)
VersionFields == <<"menuVersion", "userVersion">>

\* the datasets of the response each counter gates
Gated(field) ==
  IF field = "menuVersion" THEN {"categories", "menuItems"} ELSE {"users"}

\* the datasets every pull returns
AlwaysIncluded == {"orders", "shifts", "wasteLogs"}

\* rows of the branch in each of the tables orders, shifts and wasteLogs
StoredRows == 2

\* the values of limit the branches send
Limits == {1, 1000}

\* the requests to the two endpoints, numbered as they arrive
SyncRequests == 1..MaxSyncRequests

\* a request that has not arrived yet
NoCall ==
  [pc |-> "idle", kind |-> "", branchId |-> "", force |-> FALSE, limit |-> 0,
   pendingDownloads |-> {}, before |-> <<>>, latest |-> <<>>,
   response |-> [status |-> 0]]

\* getLatestVersion(field): the maximum of the counter over all branches
getLatestVersion(field, vs) ==
  CHOOSE v \in {vs[b][field] : b \in Branches} :
    \A b \in Branches : vs[b][field] <= v

\* getSyncStatus(b).pendingDownloads: the counters of the branch that are
\* behind the latest version
pendingDownloads(b, vs) ==
  {VersionFields[i] : i \in {j \in 1..Len(VersionFields) :
     vs[b][VersionFields[j]] < getLatestVersion(VersionFields[j], vs)}}

\* incrementVersion(b, field): the counter of the branch is raised by one
incrementVersion(b, field, vs) ==
  [vs EXCEPT ![b][field] = @ + 1]

\* variant of Sections in which every gated section runs
SectionsUngated(force, pending) == 1..Len(VersionFields)

\* the gated sections of the pull that run: those of the counters that are
\* behind, all of them when force is set
Sections(force, pending) ==
  {i \in 1..Len(VersionFields) : force \/ VersionFields[i] \in pending}

RECURSIVE RunSections(_, _, _, _, _)
\* the gated sections i..upTo of a pull in the order of the code: each one
\* that runs raises the counter of the branch
RunSections(b, sections, i, upTo, vs) ==
  IF i > upTo THEN vs
  ELSE RunSections(b, sections, i + 1, upTo,
         IF i \in sections THEN incrementVersion(b, VersionFields[i], vs) ELSE vs)

\* the datasets in the data of a pull response
DataOf(force, pending) ==
  AlwaysIncluded \cup
    UNION {Gated(VersionFields[i]) : i \in Sections(force, pending)}

\* the sync history entry createSyncHistory writes
NewHistory(id, b, direction) ==
  [id |-> id, branchId |-> b, syncDirection |-> direction, status |-> "SUCCESS",
   syncCompletedAt |-> FALSE, errorDetails |-> FALSE, updates |-> 0]

\* updateSyncHistory(id, status, ..., errorDetails)
updateSyncHistory(history, id, status, error) ==
  {IF e.id = id
   THEN [e EXCEPT !.status = status, !.syncCompletedAt = TRUE,
                  !.errorDetails = error, !.updates = @ + 1]
   ELSE e : e \in history}

\* POST /api/sync/pull of branch b up to its gated sections: the history
\* entry is created, the sync status and the latest versions are read
PullRequestStart(r, b, force, limit) ==
  /\ calls[r].pc = "idle"
  /\ \A q \in SyncRequests : q < r => calls[q].pc /= "idle"
  /\ syncHistory' = syncHistory \cup {NewHistory(r, b, "DOWN")}
  /\ calls' = [calls EXCEPT ![r] =
       [pc |-> "run", kind |-> "pull", branchId |-> b, force |-> force,
        limit |-> limit, pendingDownloads |-> pendingDownloads(b, versions),
        before |-> [i \in 1..Len(VersionFields) |-> versions[b][VersionFields[i]]],
        latest |-> [i \in 1..Len(VersionFields) |->
                      getLatestVersion(VersionFields[i], versions)],
        response |-> [status |-> 0]]]
  /\ UNCHANGED versions

\* the rest of the pull.  thrown = 0: every section runs, the entry is
\* finalized and the data is returned.  thrown = k > 0: a database call
\* throws in section k, after the sections before it; the catch block does
\* not see syncHistoryId, which is declared in the try block, so the entry
\* is left as it is and the answer is a 500
PullRequestEnd(r, thrown) ==
  /\ calls[r].pc = "run"
  /\ calls[r].kind = "pull"
  /\ LET c == calls[r]
         sections == Sections(c.force, c.pendingDownloads)
     IN /\ \A i \in sections : versions[c.branchId][VersionFields[i]] < MaxVersion
        /\ IF thrown = 0
           THEN /\ versions' = RunSections(c.branchId, sections, 1, Len(VersionFields), versions)
                /\ syncHistory' = updateSyncHistory(syncHistory, r, "SUCCESS", FALSE)
                /\ calls' = [calls EXCEPT ![r].pc = "done", ![r].response =
                     [status |-> 200,
                      data |-> DataOf(c.force, c.pendingDownloads),
                      rows |-> Min(StoredRows, c.limit),
                      after |-> c.latest]]
           ELSE /\ versions' = RunSections(c.branchId, sections, 1, thrown - 1, versions)
                /\ calls' = [calls EXCEPT ![r].pc = "done", ![r].response = [status |-> 500]]
                /\ UNCHANGED syncHistory

\* POST /api/sync/push of branch b up to its work: the history entry is
\* created for 'system'
PushRequestStart(r, b) ==
  /\ calls[r].pc = "idle"
  /\ \A q \in SyncRequests : q < r => calls[q].pc /= "idle"
  /\ syncHistory' = syncHistory \cup {NewHistory(r, "system", "UP")}
  /\ calls' = [calls EXCEPT ![r] = [NoCall EXCEPT !.pc = "run", !.kind = "push", !.branchId = b]]
  /\ UNCHANGED versions

\* the rest of the push: the entry gets the branch and is finalized, or a
\* database call throws and the catch block finalizes the entry as FAILED
PushRequestEnd(r, thrown) ==
  /\ calls[r].pc = "run"
  /\ calls[r].kind = "push"
  /\ syncHistory' =
       IF thrown
       THEN updateSyncHistory(syncHistory, r, "FAILED", TRUE)
       ELSE updateSyncHistory(
              {IF e.id = r THEN [e EXCEPT !.branchId = calls[r].branchId] ELSE e :
                 e \in syncHistory},
              r, "SUCCESS", FALSE)
  /\ calls' = [calls EXCEPT ![r].pc = "done",
                            ![r].response = [status |-> IF thrown THEN 500 ELSE 200]]
  /\ UNCHANGED versions

----------------------------------------------------------------------------
(* Initial state of the conflict store, the local data, the hooks and the
   sync endpoints *)

\* the conflict store starts empty, the local store of the device too, and
\* the hooks are mounted
OtherInit ==
  /\ conflicts = {}
  /\ entities = [type \in EntityTypes |-> CentralRecord(type)]
  /\ reqs = [r \in Requests |-> FreeSlot("none")]
  /\ syncWrites = {}
  /\ cached = "null"
  /\ view = [h \in Facades |-> InitialView(h, navigatorOnLine)]
  /\ versions = [b \in Branches |-> [f \in Range(VersionFields) |-> 1]]
  /\ syncHistory = {}
  /\ calls = [r \in SyncRequests |-> NoCall]

----------------------------------------------------------------------------
(* Initial state: the module has been loaded, nothing has been called *)

\* no call of mutate is in progress
NoMutation == [pc |-> "idle", type |-> "", outcome |-> "none"]

Init ==
  /\ now = 0
  /\ nextSeq = 0
  /\ operations = {}
  /\ syncState = NullSyncState
  /\ navigatorOnLine \in BOOLEAN
  /\ isOnline = navigatorOnLine
  /\ isSyncing = FALSE
  /\ syncStatus = "IDLE"
  /\ syncInterval = FALSE
  /\ skipFirstAutoSync = FALSE
  /\ branchId = ""
  /\ initialized = FALSE
  /\ initializationPromise = "null"
  /\ initLog = [runs |-> 0, requested |-> "", returned |-> {}]
  /\ lastPullAttempt = "none"
  /\ OtherInit
  /\ pc = [s \in Senders |-> "idle"]
  /\ batch = [s \in Senders |-> NoBatch]
  /\ result = [p \in Passes |-> EmptyResult]
  /\ timeoutArmed = [p \in Passes |-> FALSE]
  /\ rows = {}
  /\ nextGen = 0
  /\ applied = [n \in 1..MaxOps |-> 0]
  /\ attempted = {}
  /\ faults = 0
  /\ served = 0
  /\ mut = NoMutation

----------------------------------------------------------------------------
(* OfflineManager: syncAll *)

IdlePasses == {p \in Passes : pc[p] = "idle"}

\* the invocation record a new call of syncAll gets
FreePass == CHOOSE p \in IdlePasses : \A q \in IdlePasses : p <= q

\* the synchronous head of syncAll: the two rejections, or taking the lock,
\* arming the safety timeout and going on to pullData
SyncAllStart(p, online) ==
  /\ pc[p] = "idle"
  /\ IF isSyncing \/ ~online
     THEN UNCHANGED <<isSyncing, syncStatus, pc, timeoutArmed, result>>
     ELSE /\ isSyncing' = TRUE
          /\ syncStatus' = "SYNCING"
          /\ timeoutArmed' = [timeoutArmed EXCEPT ![p] = TRUE]
          /\ pc' = [pc EXCEPT ![p] = "pull"]
          /\ result' = [result EXCEPT ![p] = EmptyResult]

\* syncAll is called while this.isOnline has the value online
SyncAll(online) ==
  /\ IdlePasses /= {}
  /\ SyncAllStart(FreePass, online)

\* variant of SafetyTimeout that logs the timeout but leaves the lock set
SafetyTimeoutKeepsLock(p) ==
  /\ timeoutArmed[p]
  /\ timeoutArmed' = [timeoutArmed EXCEPT ![p] = FALSE]
  /\ UNCHANGED <<mut, otherVars, initVars, lastPullAttempt, now, nextSeq, operations, syncState, clientVars, isSyncing, syncStatus, pc,
                 batch, result, serverVars>>

\* the setTimeout callback of syncAll, 60 s after the pass took the lock
SafetyTimeout(p) ==
  /\ timeoutArmed[p]
  /\ timeoutArmed' = [timeoutArmed EXCEPT ![p] = FALSE]
  /\ isSyncing' = FALSE
  /\ UNCHANGED <<mut, otherVars, initVars, lastPullAttempt, now, nextSeq, operations, syncState, clientVars, pc, batch, result,
                 serverVars, syncStatus>>

\* variant of NextBatch that slices the batch off the young end of the queue
NextBatchFromEnd(store, branch) ==
  LET ops == getPendingOperations(store)
  IN IF Len(ops) = 0 THEN NoBatch
     ELSE [branchId |-> branch,
           operations |-> SubSeq(ops, Len(ops) - Min(BATCH_SIZE, Len(ops)) + 1, Len(ops))]

\* pushOperations reads the queue: the next request carries the first
\* BATCH_SIZE operations, and the loop ends when the queue is empty
NextBatch(store, branch) ==
  LET ops == getPendingOperations(store)
  IN IF Len(ops) = 0 THEN NoBatch
     ELSE [branchId |-> branch, operations |-> SubSeq(ops, 1, Min(BATCH_SIZE, Len(ops)))]

\* where pushOperations is after reading the queue
AfterRead(store) == IF store = {} THEN "finish" ELSE "fetch"

\* pullData returns before its fetch: the last pull is less than five minutes
\* old and the sync state says that it failed
PullThrottled == syncState.lastPull = "recent" /\ syncState.lastPullFailed = "true"

\* variant of PullData in which a failed pull ends the pass
PullDataAbortsPass(p, pullOk) ==
  /\ pc[p] = "pull"
  /\ IF PullThrottled
     THEN UNCHANGED <<syncState, lastPullAttempt>>
     ELSE /\ syncState' =
               updateSyncState(syncState,
                 [lastPullFailed |-> IF pullOk THEN "false" ELSE "true",
                  lastPull |-> "recent"],
                 navigatorOnLine)
          /\ lastPullAttempt' = IF pullOk THEN "ok" ELSE "failed"
  /\ IF PullThrottled \/ pullOk
     THEN /\ pc' = [pc EXCEPT ![p] = AfterRead(operations)]
          /\ batch' = [batch EXCEPT ![p] = NextBatch(operations, branchId)]
     ELSE /\ pc' = [pc EXCEPT ![p] = "finish"]
          /\ batch' = [batch EXCEPT ![p] = NoBatch]
  /\ UNCHANGED <<mut, otherVars, initVars, now, nextSeq, operations, clientVars, isSyncing, syncStatus, result,
                 timeoutArmed, serverVars, faults>>

\* pullData, and the first read of the queue by pushOperations.  The pull is
\* skipped when a pull failed less than five minutes ago, otherwise the pull
\* request succeeds or fails; both outcomes are recorded
PullData(p, pullOk) ==
  /\ pc[p] = "pull"
  /\ IF PullThrottled
     THEN UNCHANGED <<syncState, lastPullAttempt>>
     ELSE /\ syncState' =
               updateSyncState(syncState,
                 [lastPullFailed |-> IF pullOk THEN "false" ELSE "true",
                  lastPull |-> "recent"],
                 navigatorOnLine)
          /\ lastPullAttempt' = IF pullOk THEN "ok" ELSE "failed"
  /\ pc' = [pc EXCEPT ![p] = AfterRead(operations)]
  /\ batch' = [batch EXCEPT ![p] = NextBatch(operations, branchId)]
  /\ UNCHANGED <<mut, otherVars, initVars, now, nextSeq, operations, clientVars, isSyncing, syncStatus, result,
                 timeoutArmed, serverVars, faults>>

\* five minutes have passed since lastPullTimestamp
PullWindowExpires ==
  /\ syncState.lastPull = "recent"
  /\ syncState' = [syncState EXCEPT !.lastPull = "old"]
  /\ UNCHANGED <<mut, otherVars, initVars, lastPullAttempt, now, nextSeq, operations, clientVars, isSyncing, syncStatus, pc, batch, result, timeoutArmed, serverVars, faults>>

\* pushBatch: what it returns for the answer r to a request with ops
pushBatch(ops, r) ==
  IF r.ok
  THEN [processed |-> IF r.processed = 0 THEN Len(ops) ELSE r.processed,
        failed |-> r.failed,
        failedIds |-> Range(r.failedIds),
        errors |-> r.errors]
  ELSE [processed |-> 0,
        failed |-> Len(ops),
        failedIds |-> {ops[i].id : i \in 1..Len(ops)},
        errors |-> 1]

RECURSIVE RemoveSuccessful(_, _, _, _)
\* the loop of pushOperations over the batch: an operation whose id is not among
\* the failed ids is removed, the others are written back with retryCount + 1
\* (nothing reads retryCount; counts above MaxRetryCount are not told apart)
RemoveSuccessful(store, ops, i, failedIds) ==
  IF i > Len(ops) THEN store
  ELSE IF ops[i].id \notin failedIds
       THEN RemoveSuccessful(Delete(store, ops[i].id), ops, i + 1, failedIds)
       ELSE RemoveSuccessful(
              Put(store, [ops[i] EXCEPT !.retryCount = Min(@ + 1, MaxRetryCount)]),
              ops, i + 1, failedIds)

\* pushOperations, from the answer of a batch-push request to the next
\* request: the results are added up (counts above MaxCounted are not told
\* apart), the operations of the batch are removed or written back, and the
\* queue is read again; when operations are left the pass goes on at next, the
\* delay between two batches or the next request
PushBatchStep(p, net, next) ==
  /\ pc[p] = "fetch"
  /\ LET ops == batch[p].operations
         x == Fetch(batch[p], net)
         b == pushBatch(ops, x.resp)
     IN /\ result' = [result EXCEPT ![p] =
                        [success |-> result[p].success /\ b.errors = 0,
                         operationsProcessed |->
                           Min(result[p].operationsProcessed + b.processed, MaxCounted),
                         operationsFailed |->
                           Min(result[p].operationsFailed + b.failed, MaxCounted),
                         errors |-> Min(result[p].errors + b.errors, MaxCounted)]]
        /\ operations' = RemoveSuccessful(operations, ops, 1, b.failedIds)
        /\ rows' = x.rows
        /\ nextGen' = x.nextGen
        /\ applied' = x.applied
        /\ attempted' = x.attempted
  /\ pc' = [pc EXCEPT ![p] =
             IF AfterRead(operations') = "fetch" THEN next ELSE AfterRead(operations')]
  /\ batch' = [batch EXCEPT ![p] = NextBatch(operations', branchId)]
  /\ UNCHANGED <<mut, otherVars, initVars, lastPullAttempt, now, nextSeq, syncState, clientVars, isSyncing, syncStatus, timeoutArmed>>

\* the same with the delay of 100 ms between two batches as a part of the step
PushBatchAnswer(p, net) == PushBatchStep(p, net, "fetch")

\* the same within the bounds of the model on the network
PushBatchReturn(p, net) ==
  /\ CanFetch(net)
  /\ PushBatchAnswer(p, net)
  /\ Counted(net)

\* hasCriticalErrors: whether one of the error messages of the pass contains
\* 'offline' or 'network'; the messages come from the browser and the server
CriticalErrors(r) == IF r.errors > 0 THEN BOOLEAN ELSE {FALSE}

\* the status syncAll broadcasts for the result of pushOperations
FinalStatus(r, critical) ==
  IF r.operationsFailed > 0 /\ ~critical THEN "SUCCESS"
  ELSE IF r.success \/ r.operationsProcessed > 0 THEN "SUCCESS"
  ELSE "ERROR"

\* the tail of syncAll: the sync state is refreshed, the status of the pass is
\* broadcast, and the finally block clears the safety timeout and the lock
SyncAllFinish(p) ==
  /\ pc[p] = "finish"
  /\ syncState' =
       updateSyncState(syncState,
         [lastPushTimestamp |-> 1,
          pendingOperations |-> getPendingOperationsCount(operations)],
         navigatorOnLine)
  /\ \E critical \in CriticalErrors(result[p]) : syncStatus' = FinalStatus(result[p], critical)
  /\ timeoutArmed' = [timeoutArmed EXCEPT ![p] = FALSE]
  /\ isSyncing' = FALSE
  /\ pc' = [pc EXCEPT ![p] = "idle"]
  /\ batch' = [batch EXCEPT ![p] = NoBatch]
  /\ result' = [result EXCEPT ![p] = EmptyResult]
  /\ UNCHANGED <<mut, otherVars, initVars, lastPullAttempt, now, nextSeq, operations, clientVars, serverVars, faults>>

----------------------------------------------------------------------------
(* OfflineManager: the triggers of syncAll *)

\* forceSync(), the manual trigger of the status indicator, and the syncAll()
\* call that login() schedules one second after a successful login
ForceSync ==
  /\ SyncAll(isOnline)
  /\ UNCHANGED <<mut, otherVars, initVars, lastPullAttempt, now, nextSeq, operations, syncState, clientVars, batch, serverVars, faults>>

\* variant of TimerTick whose callback does not look at this.isOnline
TimerTickIgnoresConnectivity ==
  /\ syncInterval
  /\ IF skipFirstAutoSync
     THEN /\ skipFirstAutoSync' = FALSE
          /\ UNCHANGED <<isSyncing, syncStatus, pc, timeoutArmed, result>>
     ELSE /\ ~isSyncing
          /\ SyncAll(TRUE)
          /\ UNCHANGED skipFirstAutoSync
  /\ UNCHANGED <<mut, otherVars, initVars, lastPullAttempt, now, nextSeq, operations, syncState, navigatorOnLine, isOnline,
                 syncInterval, branchId, initialized, batch, serverVars,
                 faults>>

\* the setInterval callback of startAutoSync
TimerTick ==
  /\ syncInterval
  /\ IF skipFirstAutoSync
     THEN /\ skipFirstAutoSync' = FALSE
          /\ UNCHANGED <<isSyncing, syncStatus, pc, timeoutArmed, result>>
     ELSE /\ isOnline /\ ~isSyncing
          /\ SyncAll(isOnline)
          /\ UNCHANGED skipFirstAutoSync
  /\ UNCHANGED <<mut, otherVars, initVars, lastPullAttempt, now, nextSeq, operations, syncState, navigatorOnLine, isOnline,
                 syncInterval, branchId, initialized, batch, serverVars,
                 faults>>

\* queueOperation(type, data): the operation is stored, the pending counter is
\* refreshed, and syncAll is fired when online and not syncing
QueueOperation(type, ing, time) ==
  /\ nextSeq < MaxOps
  /\ LET n == nextSeq + 1
         store == addOperation(operations, type, Payload(type, n, ing), branchId, time, n)
     IN /\ nextSeq' = n
        /\ now' = time
        /\ operations' = store
        /\ syncState' =
             updateSyncState(syncState,
               [pendingOperations |-> getPendingOperationsCount(store)],
               navigatorOnLine)
  /\ IF isOnline /\ ~isSyncing
     THEN SyncAll(isOnline)
     ELSE UNCHANGED <<isSyncing, syncStatus, pc, timeoutArmed, result>>
  /\ UNCHANGED <<clientVars, batch, serverVars, faults, initVars, lastPullAttempt,
                 otherVars>>

\* the branch ids a signed-in user can have
BranchIds == {Branch, OtherBranch}

\* how the HEAD request of the liveness probe can end: answered with a 2xx
\* status, answered with another status, or not answered within three seconds
ProbeOutcomes == {"2xx", "non2xx", "unreachable"}

\* checkActualConnectivity: the value it gives this.isOnline.  The fetch
\* resolves for every answer, whatever its status; only a rejected fetch
\* (network error, abort after three seconds) reaches the catch block
checkActualConnectivity(probe) == probe /= "unreachable"

\* variant of Initialize without the check of initializationPromise
InitializeIgnoresPromise(b) ==
  /\ IF initialized /\ branchId = b
     THEN /\ initLog' = [initLog EXCEPT !.requested = b]
          /\ UNCHANGED <<initializationPromise, branchId>>
     ELSE /\ initLog' = [initLog EXCEPT !.requested = b, !.runs = @ + 1]
          /\ initializationPromise' = "pending"
          /\ branchId' = b
  /\ UNCHANGED <<mut, otherVars, lastPullAttempt, now, nextSeq, operations, syncState,
                 navigatorOnLine, isOnline, syncInterval, skipFirstAutoSync,
                 initialized, isSyncing, syncStatus, pc, batch, result, timeoutArmed,
                 serverVars, faults>>

\* a call initialize(b), up to its first await: a call that finds
\* initializationPromise set returns that promise; a call for the branch the
\* manager is initialized for returns at once; otherwise the body starts, and
\* its first statement sets branchId
Initialize(b) ==
  /\ IF initializationPromise /= "null"
     THEN /\ initLog' = [initLog EXCEPT !.requested = b,
                                        !.returned = @ \cup {initializationPromise}]
          /\ UNCHANGED <<initializationPromise, branchId>>
     ELSE IF initialized /\ branchId = b
          THEN /\ initLog' = [initLog EXCEPT !.requested = b]
               /\ UNCHANGED <<initializationPromise, branchId>>
          ELSE /\ initLog' = [initLog EXCEPT !.requested = b, !.runs = @ + 1]
               /\ initializationPromise' = "pending"
               /\ branchId' = b
  /\ UNCHANGED <<mut, otherVars, lastPullAttempt, now, nextSeq, operations, syncState,
                 navigatorOnLine, isOnline, syncInterval, skipFirstAutoSync,
                 initialized, isSyncing, syncStatus, pc, batch, result, timeoutArmed,
                 serverVars, faults>>

\* the rest of the body of initialize: the storage is opened, the connectivity
\* is probed, the listeners are registered, the sync state is created, and the
\* timer is started when the probe says online
InitializeBody(probe) ==
  /\ initializationPromise = "pending"
  /\ isOnline' = checkActualConnectivity(probe)
  /\ syncState' =
       LET created ==
             IF syncState.exists THEN syncState
             ELSE updateSyncState(syncState,
                    [branchId |-> branchId, isOnline |-> isOnline', lastPull |-> "never",
                     lastPushTimestamp |-> 0, pendingOperations |-> 0],
                    navigatorOnLine)
       IN updateSyncState(created, [isOnline |-> isOnline'], navigatorOnLine)
  /\ initialized' = TRUE
  /\ initializationPromise' = "resolved"
  /\ IF isOnline'
     THEN /\ skipFirstAutoSync' = TRUE
          /\ syncInterval' = TRUE
          /\ UNCHANGED syncStatus
     ELSE /\ syncStatus' = "OFFLINE"
          /\ UNCHANGED <<skipFirstAutoSync, syncInterval>>
  /\ UNCHANGED <<mut, otherVars, initLog, lastPullAttempt, now, nextSeq, operations, navigatorOnLine,
                 branchId, isSyncing, pc, batch, result, timeoutArmed, serverVars, faults>>

\* the browser's online event: handleOnline probes the server; when the probe
\* says online IDLE is broadcast, the timer is started and syncAll is called
HandleOnline(probe) ==
  /\ ~navigatorOnLine
  /\ navigatorOnLine' = TRUE
  /\ IF ~initialized
     THEN UNCHANGED <<isOnline, syncState, syncInterval, isSyncing, syncStatus, pc, timeoutArmed,
                      result>>
     ELSE /\ isOnline' = checkActualConnectivity(probe)
          /\ IF isOnline'
             THEN /\ syncState' = updateSyncState(syncState, [isOnline |-> TRUE], TRUE)
                  /\ syncInterval' = TRUE
                  /\ IF isSyncing
                     THEN /\ syncStatus' = "IDLE"
                          /\ UNCHANGED <<isSyncing, pc, timeoutArmed, result>>
                     ELSE SyncAll(TRUE)
             ELSE UNCHANGED <<syncState, syncInterval, isSyncing, syncStatus, pc, timeoutArmed,
                              result>>
  /\ UNCHANGED <<mut, otherVars, initVars, lastPullAttempt, now, nextSeq, operations, skipFirstAutoSync, branchId, initialized,
                 batch, serverVars, faults>>

\* the browser's offline event: handleOffline stops the timer and broadcasts
\* OFFLINE
HandleOffline ==
  /\ navigatorOnLine
  /\ navigatorOnLine' = FALSE
  /\ IF ~initialized
     THEN UNCHANGED <<isOnline, syncState, syncInterval, syncStatus>>
     ELSE /\ isOnline' = FALSE
          /\ syncState' = updateSyncState(syncState, [isOnline |-> FALSE], FALSE)
          /\ syncInterval' = FALSE
          /\ syncStatus' = "OFFLINE"
  /\ UNCHANGED <<mut, otherVars, initVars, lastPullAttempt, now, nextSeq, operations, skipFirstAutoSync, branchId, initialized,
                 isSyncing, pc, batch, result, timeoutArmed, serverVars,
                 faults>>

----------------------------------------------------------------------------
(* useAutoSync: syncPendingOperations *)

\* the timer callback set on mount and on the online event: unless a run is in
\* progress (syncingRef) every queued operation is sent in one request per branch
HookStart ==
  /\ pc[Hook] = "idle"
  /\ operations /= {}
  /\ pc' = [pc EXCEPT ![Hook] = "fetch"]
  /\ batch' = [batch EXCEPT ![Hook] =
                 [branchId |-> Branch, operations |-> getPendingOperations(operations)]]
  /\ UNCHANGED <<mut, otherVars, initVars, lastPullAttempt, now, nextSeq, operations, syncState, clientVars, isSyncing, syncStatus, result, timeoutArmed, serverVars, faults>>

RECURSIVE DeleteAll(_, _, _)
\* the loop that deletes the operations of a synced group
DeleteAll(store, ops, i) ==
  IF i > Len(ops) THEN store
  ELSE DeleteAll(Delete(store, ops[i].id), ops, i + 1)

\* the answer arrives: the operations of the request are deleted when the
\* answer is a 2xx with success true, otherwise they all stay
HookReturn(net) ==
  /\ pc[Hook] = "fetch"
  /\ CanFetch(net)
  /\ LET x == Fetch(batch[Hook], net)
     IN /\ operations' =
             IF x.resp.ok /\ x.resp.success
             THEN DeleteAll(operations, batch[Hook].operations, 1)
             ELSE operations
        /\ rows' = x.rows
        /\ nextGen' = x.nextGen
        /\ applied' = x.applied
        /\ attempted' = x.attempted
  /\ Counted(net)
  /\ pc' = [pc EXCEPT ![Hook] = "idle"]
  /\ batch' = [batch EXCEPT ![Hook] = NoBatch]
  /\ UNCHANGED <<mut, otherVars, initVars, lastPullAttempt, now, nextSeq, syncState, clientVars, isSyncing, syncStatus, result, timeoutArmed>>

----------------------------------------------------------------------------
(* Specification of the sync engine *)

\* the state after initialize(Branch) has completed on a fresh device with a
\* successful probe: the timer runs and its first tick is to be skipped
InitOnline ==
  /\ now = 0
  /\ nextSeq = 0
  /\ operations = {}
  /\ syncState =
       updateSyncState(
         updateSyncState(NullSyncState,
           [branchId |-> Branch, isOnline |-> TRUE, lastPull |-> "never",
            lastPushTimestamp |-> 0, pendingOperations |-> 0], TRUE),
         [isOnline |-> TRUE], TRUE)
  /\ navigatorOnLine = TRUE
  /\ isOnline = TRUE
  /\ isSyncing = FALSE
  /\ syncStatus = "IDLE"
  /\ syncInterval = TRUE
  /\ skipFirstAutoSync = TRUE
  /\ branchId = Branch
  /\ initialized = TRUE
  /\ initializationPromise = "resolved"
  /\ initLog = [runs |-> 1, requested |-> Branch, returned |-> {}]
  /\ lastPullAttempt = "none"
  /\ OtherInit
  /\ pc = [s \in Senders |-> "idle"]
  /\ batch = [s \in Senders |-> NoBatch]
  /\ result = [p \in Passes |-> EmptyResult]
  /\ timeoutArmed = [p \in Passes |-> FALSE]
  /\ rows = {}
  /\ nextGen = 0
  /\ applied = [n \in 1..MaxOps |-> 0]
  /\ attempted = {}
  /\ faults = 0
  /\ served = 0
  /\ mut = NoMutation

\* the payloads the model enqueues: an order, an inventory row whose
\* ingredient does not exist, a shift opened offline
Enqueued(type, ing, time) ==
  /\ type \in ClientOpTypes
  /\ ing = (IF type = "CREATE_INVENTORY" THEN "missing" ELSE "none")
  /\ time \in (IF nextSeq = 0 THEN {now + 1} ELSE {now, now + 1})

\* a pass outlives its safety timeout
PassExpires(p) ==
  /\ faults < MaxFaults
  /\ faults' = faults + 1
  /\ SafetyTimeout(p)

Next ==
  \/ \E type \in ClientOpTypes, ing \in {"missing", "none"}, time \in {now, now + 1} :
       Enqueued(type, ing, time) /\ QueueOperation(type, ing, time) /\ UNCHANGED mut
  \/ ForceSync
  \/ \E p \in Passes : PassExpires(p)
  \/ \E p \in Passes : PullData(p, TRUE)
  \/ \E p \in Passes, net \in NetOutcomes : PushBatchReturn(p, net)
  \/ \E p \in Passes : SyncAllFinish(p)
  \/ HookStart
  \/ \E net \in NetOutcomes : HookReturn(net)

Spec == InitOnline /\ [][Next]_vars

----------------------------------------------------------------------------
(* Specification of the sync lock and the connectivity monitor *)

\* the safety timeout of pass p fires
TimeoutFires(p) == SafetyTimeout(p) /\ UNCHANGED faults

LockNext ==
  \/ initializationPromise = "null" /\ Initialize(Branch)
  \/ \E probe \in ProbeOutcomes : InitializeBody(probe)
  \/ \E probe \in ProbeOutcomes : HandleOnline(probe)
  \/ HandleOffline
  \/ TimerTick
  \/ ForceSync
  \/ operations = {} /\ QueueOperation("CREATE_ORDER", "none", now + 1) /\ UNCHANGED mut
  \/ \E p \in Passes : TimeoutFires(p)
  \/ \E p \in Passes : PullData(p, TRUE)
  \/ \E p \in Passes, net \in NetOutcomes : PushBatchReturn(p, net)
  \/ \E p \in Passes : SyncAllFinish(p)

\* A timer set with setTimeout fires: the event loop runs its callback unless
\* clearTimeout disarms it first.  Nothing is assumed about the network calls.
LockSpec ==
  /\ Init
  /\ [][LockNext]_vars
  /\ \A p \in Passes : WF_vars(TimeoutFires(p))

----------------------------------------------------------------------------
(* syncAll with a status listener that throws *)

\* syncAll() when a registered listener throws on the SYNCING notification:
\* the lock is set, notifyListeners throws before the safety timeout is set
\* and before the try block is entered, and the call ends with the exception
SyncAllListenerThrows ==
  /\ ~isSyncing
  /\ isOnline
  /\ isSyncing' = TRUE
  /\ syncStatus' = "SYNCING"
  /\ UNCHANGED <<mut, otherVars, initVars, lastPullAttempt, now, nextSeq, operations, syncState,
                 syncInterval, skipFirstAutoSync, branchId, initialized, navigatorOnLine,
                 isOnline, pc, batch, result, timeoutArmed, serverVars, faults>>

ListenerNext ==
  \/ LockNext
  \/ SyncAllListenerThrows

ListenerSpec ==
  /\ Init
  /\ [][ListenerNext]_vars
  /\ \A p \in Passes : WF_vars(TimeoutFires(p))

----------------------------------------------------------------------------
(* A pass against a server that stays unreachable *)

\* the batch-push request of pass p is not answered: fetch rejects, however
\* often this has happened before
PushBatchUnreachable(p) ==
  /\ PushBatchStep(p, "request_lost", "delay")
  /\ UNCHANGED <<faults, served>>

\* the delay of 100 ms between two batches is over: the next request is sent
BatchDelay(p) ==
  /\ pc[p] = "delay"
  /\ pc' = [pc EXCEPT ![p] = "fetch"]
  /\ UNCHANGED <<mut, otherVars, initVars, lastPullAttempt, now, nextSeq, operations, syncState,
                 clientVars, isSyncing, syncStatus, batch, result, timeoutArmed, serverVars,
                 faults>>

RetryNext ==
  \/ operations = {} /\ QueueOperation("CREATE_ORDER", "none", now + 1) /\ UNCHANGED mut
  \/ ForceSync
  \/ \E p \in Passes : TimeoutFires(p)
  \/ \E p \in Passes : PullData(p, TRUE)
  \/ \E p \in Passes : PushBatchUnreachable(p)
  \/ \E p \in Passes : BatchDelay(p)
  \/ \E p \in Passes : SyncAllFinish(p)

\* a step of pass p that ends one of its awaits
PassStep(p) ==
  \/ PullData(p, TRUE)
  \/ PushBatchUnreachable(p)
  \/ BatchDelay(p)
  \/ SyncAllFinish(p)

\* The batch-push endpoint stays unreachable.  Every await of a pass settles:
\* a fetch rejects, an IndexedDB request completes, a timer fires.
RetrySpec ==
  /\ InitOnline
  /\ [][RetryNext]_vars
  /\ \A p \in Passes : WF_vars(TimeoutFires(p)) /\ WF_vars(PassStep(p))

----------------------------------------------------------------------------
(* useOfflineMutation: mutate, and its specification *)

\* every variable but mut
engineVars ==
  <<now, nextSeq, operations, syncState, navigatorOnLine, isOnline, isSyncing, syncStatus,
    syncInterval, skipFirstAutoSync, branchId, initialized, pc, batch,
    result, timeoutArmed, rows, nextGen, applied, attempted, faults, served,
    initializationPromise, initLog, lastPullAttempt>>

\* mutate(data) up to its first await: online, the write is sent to the API
\* endpoint; offline, the operation is queued and data is returned
MutateStart(type, ing, time) ==
  /\ mut.pc = "idle"
  /\ IF isOnline
     THEN /\ mut' = [pc |-> "fetch", type |-> type, outcome |-> "none"]
          /\ UNCHANGED <<engineVars, otherVars>>
     ELSE /\ QueueOperation(type, ing, time)
          /\ mut' = [pc |-> "idle", type |-> type, outcome |-> "data"]

\* the direct write returns.  ok: the server's result is returned (the write
\* itself goes to an endpoint outside the batch processor).  Not ok: fetch
\* threw or the status was not 2xx, and the catch block queues the operation
\* if the manager is online by now, and otherwise rethrows
MutateReturn(ok, ing, time) ==
  /\ mut.pc = "fetch"
  /\ IF ok
     THEN /\ mut' = [mut EXCEPT !.pc = "idle", !.outcome = "result"]
          /\ UNCHANGED <<engineVars, otherVars>>
     ELSE IF isOnline
          THEN /\ QueueOperation(mut.type, ing, time)
               /\ mut' = [mut EXCEPT !.pc = "idle", !.outcome = "null"]
          ELSE /\ mut' = [mut EXCEPT !.pc = "idle", !.outcome = "thrown"]
               /\ UNCHANGED <<engineVars, otherVars>>

MutNext ==
  \/ \E type \in ClientOpTypes, ing \in {"missing", "none"} :
       Enqueued(type, ing, now + 1) /\ MutateStart(type, ing, now + 1)
  \/ \E ok \in BOOLEAN, ing \in {"missing", "none"} :
       Enqueued(mut.type, ing, now + 1) /\ MutateReturn(ok, ing, now + 1)
  \/ \E probe \in ProbeOutcomes : HandleOnline(probe)
  \/ HandleOffline
  \/ \E p \in Passes : PullData(p, TRUE)
  \/ \E p \in Passes, net \in NetOutcomes : PushBatchReturn(p, net)
  \/ \E p \in Passes : SyncAllFinish(p)

MutSpec == InitOnline /\ [][MutNext]_vars

----------------------------------------------------------------------------
(* The pull step of the passes: the pull request succeeds or fails, and the *)
(* five-minute window after a pull runs out                                 *)

PullNext ==
  \/ \E type \in ClientOpTypes, ing \in {"missing", "none"} :
       Enqueued(type, ing, now + 1) /\ QueueOperation(type, ing, now + 1) /\ UNCHANGED mut
  \/ ForceSync
  \/ \E p \in Passes, pullOk \in BOOLEAN : PullData(p, pullOk)
  \/ PullWindowExpires
  \/ \E p \in Passes, net \in NetOutcomes : PushBatchReturn(p, net)
  \/ \E p \in Passes : SyncAllFinish(p)

PullSpec == InitOnline /\ [][PullNext]_vars

----------------------------------------------------------------------------
(* The callers of initialize: the effect of AuthProvider runs it whenever   *)
(* the signed-in user changes, with the branch of that user                 *)

InitNext ==
  \/ \E b \in BranchIds : Initialize(b)
  \/ \E probe \in ProbeOutcomes : InitializeBody(probe)
  \/ \E probe \in ProbeOutcomes : HandleOnline(probe)
  \/ HandleOffline
  \/ TimerTick
  \/ ForceSync
  \/ operations = {} /\ QueueOperation("CREATE_ORDER", "none", now + 1) /\ UNCHANGED mut
  \/ \E p \in Passes : PullData(p, TRUE)
  \/ \E p \in Passes : PushBatchReturn(p, "ok")
  \/ \E p \in Passes : SyncAllFinish(p)

InitSpec == Init /\ [][InitNext]_vars

----------------------------------------------------------------------------
(* The batch processor on its own: requests of any device of the chain,     *)
(* with every operation type of the client and both kinds of payload id     *)

\* the ids a payload can carry: a stable client id or a placeholder
PayloadIds == {<<kind, n>> : kind \in {"id", "temp-"}, n \in 1..MaxOps}

\* a queued operation of the given type whose payload carries id
PostedOperation(type, id, ing) ==
  [id |-> <<type, 0, id[2]>>, type |-> type,
   data |-> [id |-> id, ingredientId |-> ing],
   timestamp |-> 0, retryCount |-> 0, branchId |-> Branch]

\* what the batch processor answers to the request with that one operation
PostResult(type, id, ing) ==
  BatchPush(<<PostedOperation(type, id, ing)>>, rows, nextGen, applied, attempted)

\* POST /api/sync/batch-push with one operation, for a branch that exists
Post(type, id, ing) ==
  /\ served < MaxServed
  /\ LET r == PostResult(type, id, ing)
     IN /\ rows' = r.rows
        /\ nextGen' = r.nextGen
        /\ applied' = r.applied
        /\ attempted' = r.attempted
  /\ served' = served + 1
  /\ UNCHANGED <<mut, otherVars, initVars, lastPullAttempt, now, nextSeq, operations, syncState,
                 clientVars, isSyncing, syncStatus, pc, batch, result, timeoutArmed, faults>>

ServerNext ==
  \E type \in OperationType, id \in PayloadIds, ing \in IngredientRefs :
    Post(type, id, ing)

ServerSpec == InitOnline /\ [][ServerNext]_vars

----------------------------------------------------------------------------
(* The conflict store under concurrent requests *)

\* the state of the sync engine, the batch processor and the mutation hook
syncVars == <<engineVars, mut>>

ConflictNext ==
  \/ \E r \in Requests, b \in Branches, type \in ReportedTypes :
       \E payload \in BranchPayloads(type) :
         /\ DetectStart(r, b, type, payload)
         /\ UNCHANGED <<syncVars, syncWrites, cached, view, pullVars>>
  \/ \E r \in Requests :
       DetectCreate(r) /\ UNCHANGED <<syncVars, syncWrites, cached, view, pullVars>>
  \/ \E r \in Requests, c \in conflicts, resolution \in Resolutions :
       \E mergedData \in MergedInputs(c.entityType) :
         /\ ResolveStart(r, c.id, resolution, mergedData)
         /\ UNCHANGED <<syncVars, syncWrites, cached, view, pullVars>>
  \/ \E r \in Requests :
       ResolveFinish(r) /\ UNCHANGED <<syncVars, syncWrites, cached, view, pullVars>>
  \/ \E r \in Requests :
       ResolveEnd(r, TRUE) /\ UNCHANGED <<syncVars, syncWrites, cached, view, pullVars>>

ConflictSpec == InitOnline /\ [][ConflictNext]_vars

----------------------------------------------------------------------------
(* The two hooks under failing fetches and connectivity changes *)

FacadeNext ==
  \/ \E h \in Facades :
       /\ FetchStart(h)
       /\ UNCHANGED <<now, nextSeq, operations, syncState, syncInterval, skipFirstAutoSync,
                      branchId, initialized, isSyncing, syncStatus, pc, batch, result, timeoutArmed,
                      serverVars, faults, mut, initVars, lastPullAttempt, conflictVars, pullVars,
                      syncWrites>>
  \/ \E h \in Facades, outcome \in FetchOutcomes :
       /\ FetchReturn(h, outcome)
       /\ UNCHANGED <<now, nextSeq, operations, syncState, syncInterval, skipFirstAutoSync,
                      branchId, initialized, isSyncing, syncStatus, pc, batch, result, timeoutArmed,
                      serverVars, faults, mut, initVars, lastPullAttempt, conflictVars, pullVars,
                      syncWrites>>
  \/ /\ WindowOffline
     /\ UNCHANGED <<now, nextSeq, operations, syncState, syncInterval, skipFirstAutoSync,
                    branchId, initialized, isSyncing, syncStatus, pc, batch, result, timeoutArmed,
                    serverVars, faults, mut, initVars, lastPullAttempt, conflictVars, pullVars,
                    syncWrites>>
  \/ /\ WindowOnline
     /\ UNCHANGED <<now, nextSeq, operations, syncState, syncInterval, skipFirstAutoSync,
                    branchId, initialized, isSyncing, syncStatus, pc, batch, result, timeoutArmed,
                    serverVars, faults, mut, initVars, lastPullAttempt, conflictVars, pullVars,
                    syncWrites>>
  \/ \E online \in BOOLEAN :
       /\ ManagerStatus(online)
       /\ UNCHANGED <<now, nextSeq, operations, syncState, syncInterval, skipFirstAutoSync,
                      branchId, initialized, isSyncing, syncStatus, pc, batch, result, timeoutArmed,
                      serverVars, faults, mut, initVars, lastPullAttempt, conflictVars, pullVars,
                      syncWrites>>
  \/ /\ cached /= "null"
     /\ ClearAllData
     /\ UNCHANGED <<now, nextSeq, syncInterval, skipFirstAutoSync, branchId, initialized,
                    isSyncing, syncStatus, pc, batch, result, timeoutArmed, serverVars, faults, mut,
                    initVars, lastPullAttempt, conflictVars, pullVars, syncWrites>>

FacadeSpec == InitOnline /\ [][FacadeNext]_vars

----------------------------------------------------------------------------
(* The pull and push endpoints under requests of the branches *)

EndpointNext ==
  \/ \E r \in SyncRequests, b \in Branches, force \in BOOLEAN, limit \in Limits :
       /\ PullRequestStart(r, b, force, limit)
       /\ UNCHANGED <<syncVars, conflictVars, syncWrites, cached, view>>
  \/ \E r \in SyncRequests, thrown \in 0..(Len(VersionFields) + 1) :
       /\ PullRequestEnd(r, thrown)
       /\ UNCHANGED <<syncVars, conflictVars, syncWrites, cached, view>>
  \/ \E r \in SyncRequests, b \in Branches :
       /\ PushRequestStart(r, b)
       /\ UNCHANGED <<syncVars, conflictVars, syncWrites, cached, view>>
  \/ \E r \in SyncRequests, thrown \in BOOLEAN :
       /\ PushRequestEnd(r, thrown)
       /\ UNCHANGED <<syncVars, conflictVars, syncWrites, cached, view>>

EndpointSpec == InitOnline /\ [][EndpointNext]_vars

----------------------------------------------------------------------------
(* Claims about the push path (specification Spec; C8 under LockSpec) *)

\* sender s completes the round trip of its request with network outcome net
RoundTrip(s, net) == IF s = Hook THEN HookReturn(net) ELSE PushBatchReturn(s, net)

\* what the batch processor does with the request of sender s
Processed(s) == BatchPush(batch[s].operations, rows, nextGen, applied, attempted)

\* the positions of the request of sender s that the batch processor counts as
\* failed, read off the failedIds of its answer ("op-<index>")
FailedPositions(s) ==
  {i \in 1..Len(batch[s].operations) : <<"op", i - 1>> \in Range(Processed(s).failedIds)}

\* C1: an operation that the batch processor counted as failed is still in the
\* queue when pushOperations has handled the answer.
C1_FailedOperationStaysQueued ==
  [][\A p \in Passes :
       (batch[p].branchId \in Branches /\ PushBatchReturn(p, "ok"))
         => \A i \in FailedPositions(p) :
              \E o \in operations' : o.id = batch[p].operations[i].id]_vars

\* C2: when batch-push reports an operation as failed, its queue entry is kept
\* with a retryCount exactly one higher.
C2_FailedOperationRetryCounted ==
  [][\A p \in Passes :
       (batch[p].branchId \in Branches /\ PushBatchReturn(p, "ok"))
         => \A i \in FailedPositions(p) :
              \A o \in operations :
                o.id = batch[p].operations[i].id
                  => \E q \in operations' :
                       q.id = o.id /\ q.retryCount = o.retryCount + 1]_vars

\* C3: a syncAll call made while a pass is in progress, whose safety timeout
\* has not fired, starts no pass: it sends no pull and no batch-push request.
C3_CallDuringPassStartsNothing ==
  [][(\E p \in Passes : pc[p] /= "idle" /\ timeoutArmed[p])
       => \A q \in Passes : pc[q] = "idle" => pc'[q] = "idle"]_vars

\* C4: at no time are two passes executing their pull or their push.
C4_PassesDoNotOverlap ==
  Cardinality({p \in Passes : pc[p] \in {"pull", "fetch"}}) <= 1

\* C5: no queued operation is applied to the authoritative store more than once.
C5_AppliedAtMostOnce ==
  \A n \in 1..MaxOps : applied[n] <= 1

\* every operation of the request of sender s has been applied before: the
\* request is a resubmission
Resubmission(s) ==
  /\ pc[s] = "fetch"
  /\ batch[s].branchId \in Branches
  /\ \A i \in 1..Len(batch[s].operations) :
       applied[MutationOf(batch[s].operations[i].data)] >= 1

\* C6: a batch of creates that is submitted again leaves one authoritative
\* record per operation and is answered with every create processed, failed = 0.
C6_ResubmittedBatchIsNoOp ==
  [][\A s \in Senders, net \in {"ok", "response_lost"} :
       (Resubmission(s) /\ RoundTrip(s, net))
         => /\ Processed(s).failed = 0
            /\ \A i \in 1..Len(batch[s].operations) :
                 Cardinality({r \in rows' : r.data = batch[s].operations[i].data}) = 1]_vars

\* s is in non-decreasing timestamp order
NonDecreasing(s) ==
  \A i, j \in 1..Len(s) : i < j => s[i].timestamp <= s[j].timestamp

\* operation o of the queue is older than position i of the request of sender s
\* and has not been applied when the server gets to position i
PendingBefore(o, s, i) ==
  /\ o.branchId = batch[s].operations[i].branchId
  /\ o.timestamp < batch[s].operations[i].timestamp
  /\ applied[MutationOf(o.data)] = 0
  /\ ~ \E j \in 1..(i - 1) :
         batch[s].operations[j].id = o.id /\ Processed(s).outcome[j]

\* the request of sender s reaches the server
Reaches(s, net) ==
  /\ net /= "request_lost"
  /\ batch[s].branchId \in Branches
  /\ RoundTrip(s, net)

\* C7 as claimed: the server never applies an operation while an operation of
\* the branch with an earlier timestamp is still pending and not applied.
C7_AppliedInTimestampOrder ==
  [][\A s \in Senders, net \in NetOutcomes :
       Reaches(s, net)
         => \A i \in 1..Len(batch[s].operations) :
              Processed(s).outcome[i]
                => ~ \E o \in operations : PendingBefore(o, s, i)]_vars

\* C7 as amended: every request carries its operations in non-decreasing
\* timestamp order, and the server applies an operation only when it has
\* attempted, in this request or an earlier one, every pending operation of
\* the branch with an earlier timestamp.
C7_AttemptedInTimestampOrder ==
  [][\A s \in Senders, net \in NetOutcomes :
       Reaches(s, net)
         => /\ NonDecreasing(batch[s].operations)
            /\ \A i \in 1..Len(batch[s].operations) :
                 Processed(s).outcome[i]
                   => \A o \in operations :
                        (/\ o.branchId = batch[s].operations[i].branchId
                         /\ o.timestamp < batch[s].operations[i].timestamp)
                          => \/ MutationOf(o.data) \in attempted
                             \/ \E j \in 1..(i - 1) :
                                  batch[s].operations[j].id = o.id]_vars

\* an operation has been applied while an older one, which failed earlier in
\* the same request, is still queued and has never been applied
C7_Witness ==
  \E a, b \in operations :
    /\ a.timestamp < b.timestamp
    /\ applied[MutationOf(a.data)] = 0
    /\ MutationOf(a.data) \in attempted
    /\ applied[MutationOf(b.data)] >= 1

\* C8: getPendingOperations returns the queue in non-decreasing timestamp
\* order, and when pushOperations returns operationsProcessed = N and
\* operationsFailed = 0 for the N operations enqueued, the queue is empty and
\* each of them has been applied by the server.
C8_DrainedInOrder ==
  /\ NonDecreasing(getPendingOperations(operations))
  /\ \A p \in Passes :
       (/\ pc[p] = "finish"
        /\ result[p].operationsProcessed = nextSeq
        /\ result[p].operationsFailed = 0)
         => /\ getPendingOperationsCount(operations) = 0
            /\ \A n \in 1..nextSeq : applied[n] >= 1

----------------------------------------------------------------------------
(* Claims about the safety timeout (specification LockSpec) *)

\* C9: whatever a pass does, hanging in a network call included, the sync lock
\* is cleared in the end, and a syncAll call made online while the lock is
\* clear starts a new pass even though the expired pass has not returned.
C9_StuckPassReleasesLock ==
  /\ isSyncing ~> ~isSyncing
  /\ [][(ForceSync /\ isOnline /\ ~isSyncing)
          => \E p \in Passes : pc[p] = "idle" /\ pc'[p] = "pull" /\ isSyncing']_vars

\* a pass has started while an expired pass is still waiting for its answer
C9_Witness ==
  \E p, q \in Passes :
    /\ pc[p] \in {"pull", "fetch"} /\ ~timeoutArmed[p]
    /\ pc[q] = "pull" /\ timeoutArmed[q]
    /\ isSyncing

----------------------------------------------------------------------------
(* Claims about the offline mutation path (specification MutSpec) *)

\* C10: a mutation made while the manager is offline, or whose direct write
\* fails, is added to the operation queue exactly once.
C10_FailedWriteIsQueuedOnce ==
  [][(\/ mut.pc = "idle" /\ ~isOnline /\ mut'.outcome = "data" /\ mut' /= mut
      \/ mut.pc = "fetch" /\ mut'.pc = "idle" /\ mut'.outcome /= "result")
       => /\ nextSeq' = nextSeq + 1
          /\ \E o \in operations' :
               /\ o.type = mut'.type
               /\ operations' = operations \cup {o}
               /\ o \notin operations]_vars

----------------------------------------------------------------------------
(* Claims about the pass as a whole (specification Spec) *)

\* what pushBatch returns to pass p for its request under network outcome net
Returned(p, net) == pushBatch(batch[p].operations, Fetch(batch[p], net).resp)

\* the ids of the operations in the request of sender s
BatchIds(s) == {batch[s].operations[i].id : i \in 1..Len(batch[s].operations)}

----------------------------------------------------------------------------
(* Claims about the pull step (specification PullSpec) *)

\* C12: a pass sends no batch-push request before its pull step (the pull
\* request, or the throttle that skips it) is over, and a pull request that
\* fails does not end the pass: lastPullFailed is recorded, and when operations
\* are pending the pass goes on to push the head of the queue.
C12_PullPrecedesPushAndFailureIsNotFatal ==
  /\ [][\A p \in Passes :
          /\ (pc[p] /= "fetch" /\ pc'[p] = "fetch")
               => \E pullOk \in BOOLEAN : PullData(p, pullOk)
          /\ (PullData(p, FALSE) /\ ~PullThrottled)
               => /\ syncState'.lastPullFailed = "true"
                  /\ operations /= {}
                       => /\ pc'[p] = "fetch"
                          /\ batch'[p] = NextBatch(operations, branchId)
                          /\ batch'[p].operations /= <<>>]_vars
  /\ [](\A p \in Passes : pc[p] = "pull" => batch[p] = NoBatch /\ result[p] = EmptyResult)

\* a pass whose pull request failed is pushing, the failure being on record
C12_Witness ==
  \E p \in Passes :
    /\ pc[p] = "fetch"
    /\ batch[p].operations /= <<>>
    /\ lastPullAttempt = "failed"
    /\ syncState.lastPullFailed = "true"

\* C13: a pass whose pull step comes within five minutes of a failed pull
\* request sends no pull request, and goes on to the push.
C13_NoPullWithinCoolDown ==
  [][\A p \in Passes, pullOk \in BOOLEAN :
       (/\ PullData(p, pullOk)
        /\ lastPullAttempt = "failed"
        /\ syncState.lastPull = "recent")
         => /\ PullThrottled
            /\ UNCHANGED <<syncState, lastPullAttempt>>
            /\ pc'[p] = AfterRead(operations)]_vars

----------------------------------------------------------------------------
(* Claims about initialize (specification InitSpec) *)

\* C14: the body of initialize runs once.  A call that finds the
\* initialization in flight or completed starts nothing: neither the manager
\* nor the storage changes, and no timer is started.
C14_InitializeRunsOnce ==
  /\ [](initLog.runs <= 1)
  /\ [][\A b \in BranchIds :
          (initializationPromise /= "null" /\ Initialize(b))
            => /\ initLog'.runs = initLog.runs
               /\ UNCHANGED <<initializationPromise, initialized, branchId, syncInterval,
                              skipFirstAutoSync, isOnline, syncState, operations,
                              isSyncing, pc>>]_vars

\* initialize has been called while the initialization was in flight and
\* again after its completion, and the timer is running
C14_Witness ==
  /\ initLog.returned = {"pending", "resolved"}
  /\ initLog.requested = branchId
  /\ initialized
  /\ syncInterval

\* C15: a call initialize(b) on an initialized manager leaves it set up for
\* branch b, and an operation queued after the call carries b.
C15_InitializeForOtherBranch ==
  /\ [][\A b \in BranchIds : (initialized /\ Initialize(b)) => branchId' = b]_vars
  /\ [][(initialized /\ nextSeq' = nextSeq + 1)
          => \A o \in operations' \ operations : o.branchId = initLog.requested]_vars

----------------------------------------------------------------------------
(* Claims about the connectivity monitor (specification LockSpec) *)

\* a pass starts in this step
PassStarts == \E p \in Passes : pc[p] = "idle" /\ pc'[p] = "pull"

\* C16: on an online event the monitor is Online afterwards only when the
\* liveness probe was answered with a 2xx status; after any other outcome of
\* the probe the monitor is Offline and the event starts no timer and no pass.
C16_OnlineOnlyAfterSuccessfulProbe ==
  [][\A probe \in ProbeOutcomes :
       (initialized /\ HandleOnline(probe))
         => IF probe = "2xx"
            THEN isOnline'
            ELSE /\ ~isOnline'
                 /\ syncInterval' = syncInterval
                 /\ ~PassStarts]_vars

\* C17: after a liveness probe answered with a non-2xx status, in initialize
\* or on an online event, the monitor is Offline.
C17_Non2xxProbeMeansOffline ==
  [][((initialized /\ HandleOnline("non2xx")) \/ InitializeBody("non2xx"))
       => ~isOnline']_vars

C19_ConfirmedOnlineStartsOnePass ==
  [][\A probe \in ProbeOutcomes :
       (initialized /\ HandleOnline(probe) /\ isOnline')
         => /\ syncInterval'
            /\ Cardinality({p \in Passes : pc[p] = "idle" /\ pc'[p] = "pull"}) = 1]_vars

----------------------------------------------------------------------------
(* Claims about the batch processor (specification Spec) *)

\* the number of positions of the request of sender s with outcome v
CountOutcome(s, v) ==
  Cardinality({i \in 1..Len(Processed(s).outcome) : Processed(s).outcome[i] = v})

\* C20: the batch processor attempts every operation of a request once, in
\* array order and whatever happened to the operations before it, and counts
\* each as processed or as failed: processed + failed is the length of the
\* array, failedIds names the failed positions in order, and there is one
\* error entry for each of them.
C20_EveryOperationAttemptedAndClassified ==
  \A s \in Senders :
    (pc[s] = "fetch" /\ batch[s].branchId \in Branches)
      => LET ops == batch[s].operations
             r == Processed(s)
         IN /\ Len(r.outcome) = Len(ops)
            /\ r.processed + r.failed = Len(ops)
            /\ r.processed = CountOutcome(s, TRUE)
            /\ r.failed = CountOutcome(s, FALSE)
            /\ r.errors = r.failed
            /\ Len(r.failedIds) = r.failed
            /\ \A k \in 1..Len(r.failedIds) :
                 /\ r.failedIds[k][2] + 1 \in 1..Len(ops)
                 /\ ~r.outcome[r.failedIds[k][2] + 1]
                 /\ \A j \in 1..(k - 1) : r.failedIds[j][2] < r.failedIds[k][2]
            /\ \A i \in 1..Len(ops) :
                 /\ MutationOf(ops[i].data) \in r.attempted
                 /\ r.applied[MutationOf(ops[i].data)]
                      <= applied[MutationOf(ops[i].data)] + 1

\* a request is about to be processed in which an operation that fails comes
\* before one that is processed
C20_Witness ==
  \E s \in Senders :
    /\ pc[s] = "fetch"
    /\ batch[s].branchId \in Branches
    /\ \E i, j \in 1..Len(batch[s].operations) :
         i < j /\ ~Processed(s).outcome[i] /\ Processed(s).outcome[j]

----------------------------------------------------------------------------
(* Claims about the handlers of the batch processor (specification ServerSpec) *)

\* C21: an operation of a type of the client's enumeration is not counted as
\* failed for want of a handler: when it fails, its type is one of the cases
\* of processOperation.
C21_EveryClientTypeHasHandler ==
  [][\A type \in OperationType, id \in PayloadIds, ing \in IngredientRefs :
       (Post(type, id, ing) /\ PostResult(type, id, ing).failed = 1)
         => type \in ServerOperationType]_vars

\* C22: no row of the authoritative store has a placeholder id.
C22_NoPlaceholderIdInStore ==
  \A r \in rows : ~StartsWithTemp(r.id)

----------------------------------------------------------------------------
(* Claims about the conflict store (specification ConflictSpec) *)

\* the entity of the type has an unresolved conflict, of whichever branch
OpenConflict(type) ==
  \E c \in conflicts :
    c.entityType = type /\ c.entityId = EntityId /\ c.resolvedAt = 0

\* C23: in every reachable state there is at most one unresolved conflict
\* record per (entityType, entityId) pair, also when detectConflict is called
\* concurrently or on behalf of several branches.
C23_OneOpenConflictPerEntity ==
  \A c1 \in conflicts, c2 \in conflicts :
    (/\ c1.entityType = c2.entityType
     /\ c1.entityId = c2.entityId
     /\ c1.resolvedAt = 0
     /\ c2.resolvedAt = 0) => c1 = c2

\* C24: a resolved conflict record never changes again, and a resolve request
\* that is answered with success found its conflict unresolved up to the
\* moment it stamped it, so that of two racing requests one succeeds.
C24_ResolutionIsFinal ==
  [][/\ \A c \in conflicts : c.resolvedAt /= 0 => c \in conflicts'
     /\ \A r \in Requests :
          ResolveFinish(r) =>
            \A c \in conflicts : c.id = reqs[r].conflictId => c.resolvedAt = 0]_vars

\* C25: detectConflict answers true without creating a record when the entity
\* has an unresolved conflict, answers false and creates nothing when the
\* payloads are equal but for the timestamp fields, and otherwise creates one
\* unresolved record and answers true.
C25_DetectConflictContract ==
  [][/\ \A r \in Requests, b \in Branches, type \in ReportedTypes :
          \A payload \in BranchPayloads(type) :
            DetectStart(r, b, type, payload) =>
              IF OpenConflict(type) THEN reqs'[r] = FreeSlot("true")
              ELSE IF isDataEqual(payload, entities[type])
                   THEN reqs'[r] = FreeSlot("false")
                   ELSE reqs'[r].pc = "create"
     /\ \A r \in Requests :
          DetectCreate(r) =>
            /\ reqs'[r] = FreeSlot("true")
            /\ conflicts \subseteq conflicts'
            /\ Cardinality(conflicts' \ conflicts) = 1
            /\ \A c \in conflicts' \ conflicts :
                 /\ c.resolvedAt = 0
                 /\ c.entityType = reqs[r].entityType
                 /\ c.branchPayload = reqs[r].payload]_vars

\* the fields of the type a resolution is to carry over to the record
MergeableFields(type) == Fields(type) \ (ProtectedFields \cup TimestampFields)

\* C26: for every entity type on which a conflict can be recorded, a
\* resolution answered with success leaves the record's mergeable fields equal
\* to the branch payload (ACCEPT_BRANCH) or to the merged data the caller
\* supplied (MANUAL_MERGE), and leaves the record as it was (ACCEPT_CENTRAL).
C26_ResolutionIsApplied ==
  [][\A r \in Requests :
       ResolveFinish(r) =>
         LET c == CHOOSE c \in conflicts : c.id = reqs[r].conflictId
             type == c.entityType
         IN /\ reqs[r].resolution = "ACCEPT_BRANCH" =>
                 \A f \in MergeableFields(type) :
                   entities'[type][f] = c.branchPayload[f]
            /\ (reqs[r].resolution = "MANUAL_MERGE" /\ reqs[r].payload /= NoData) =>
                 \A f \in MergeableFields(type) :
                   entities'[type][f] = reqs[r].payload[f]
            /\ reqs[r].resolution = "ACCEPT_CENTRAL" => entities' = entities]_vars

----------------------------------------------------------------------------
(* Claims about the sync state record *)

\* C28: the pendingOperations counter of the sync state is never off the
\* number of queued operations by more than one, and it equals that number
\* whenever no pass of syncAll and no sync of the hook is in progress (an
\* enqueue is one step of the model, so none is in progress in any state).
C28_PendingCounterTracksQueue ==
  LET count == getPendingOperationsCount(operations)
      stored == syncState.pendingOperations
  IN /\ stored - count \in {-1, 0, 1}
     /\ (\A s \in Senders : pc[s] = "idle") => stored = count

----------------------------------------------------------------------------
(* updateSyncState step by step (specification StateSpec).  In this
   specification the two awaits of updateSyncState, getSyncState and put, are
   separate steps, so that calls of different callers interleave as the event
   loop lets them. *)

\* the updates the callers in OfflineManager pass: the result of a pull, the
\* counter refresh of an enqueue, the connectivity monitor going offline
SyncStateUpdates ==
  {[lastPullFailed |-> "false", lastPull |-> "recent"], [isOnline |-> FALSE]}
    \cup {[pendingOperations |-> n] : n \in 1..MaxOps}

\* updateSyncState(updates) up to its put: the current record is read
UpdateRead(updates) ==
  /\ Cardinality(syncWrites) < MaxWrites
  /\ syncWrites' = syncWrites \cup {[currentState |-> syncState, updates |-> updates]}
  /\ UNCHANGED syncState

\* the put of a call of updateSyncState: the record built from what the call
\* read and its updates replaces the stored one
UpdatePut(w) ==
  /\ w \in syncWrites
  /\ syncState' = updateSyncState(w.currentState, w.updates, navigatorOnLine)
  /\ syncWrites' = syncWrites \ {w}

StateNext ==
  \/ \E updates \in SyncStateUpdates :
       /\ UpdateRead(updates)
       /\ UNCHANGED <<now, nextSeq, operations, clientVars, isSyncing, syncStatus, pc, batch, result,
                      timeoutArmed, serverVars, faults, mut, initVars, lastPullAttempt,
                      conflictVars, cached, view, pullVars>>
  \/ \E w \in syncWrites :
       /\ UpdatePut(w)
       /\ UNCHANGED <<now, nextSeq, operations, clientVars, isSyncing, syncStatus, pc, batch, result,
                      timeoutArmed, serverVars, faults, mut, initVars, lastPullAttempt,
                      conflictVars, cached, view, pullVars>>

StateSpec == InitOnline /\ [][StateNext]_vars

\* the fields updateSyncState carries over from the current record
CarriedFields == {"lastPull", "lastPushTimestamp", "pendingOperations", "branchId"}

\* C29: the sync state is one record and every update of it is an atomic
\* read-modify-write: the put of a call changes none of the carried fields
\* its updates do not name, so that no update of an interleaved call is lost.
C29_UpdateLosesNoOtherUpdate ==
  [][\A w \in syncWrites :
       UpdatePut(w) =>
         \A f \in CarriedFields \ DOMAIN w.updates : syncState'[f] = syncState[f]]_vars

\* the fields of the interface SyncState
SyncStateFields == CarriedFields \cup {"isOnline", "lastPullFailed"}

\* C36: updateSyncState(updates) changes only the fields named in updates: a
\* call that is not interleaved with another one leaves every other field of
\* the stored record, lastPullFailed and isOnline among them, as it was.
C36_UpdateChangesOnlyNamedFields ==
  [][\A w \in syncWrites :
       (UpdatePut(w) /\ w.currentState = syncState /\ syncState.exists) =>
         \A f \in SyncStateFields \ DOMAIN w.updates : syncState'[f] = syncState[f]]_vars

----------------------------------------------------------------------------
(* Claims about the data-access facade (specification FacadeSpec) *)

\* C30: when the fetch of a resource fails and the local store holds data
\* for it, the hook shows the cached data and reports isOffline = true.
C30_FailedFetchFallsBackAndReportsOffline ==
  [][\A h \in Facades, outcome \in FetchOutcomes \ {"ok"} :
       (FetchReturn(h, outcome) /\ cached /= "null") =>
         /\ view'[h].data = cached
         /\ view'[h].isOffline]_vars

\* C31: when the fetch of a resource fails and the local store holds no data
\* for it, what the hook returns differs from what it returns after a
\* successful load: an error is reported, or no data is shown.
C31_FailedFetchWithoutCacheIsTold ==
  [][\A h \in Facades, outcome \in FetchOutcomes \ {"ok"} :
       (FetchReturn(h, outcome) /\ cached = "null") =>
         (view'[h].error /= "null" \/ view'[h].data /= ServerData)]_vars

\* C38: a resolve request that fails while the resolution is applied to the
\* entity and is answered with an error leaves the conflict unresolved:
\* resolvedAt, resolvedBy and resolution are unchanged, so that the conflict
\* can be resolved again.
C38_FailedResolveLeavesConflictOpen ==
  [][\A r \in Requests : ResolveEnd(r, TRUE) => conflicts' = conflicts]_vars

----------------------------------------------------------------------------
(* Claims about the pull and push endpoints (specification EndpointSpec) *)

\* the pull requests that were answered with data
AnsweredPulls ==
  {r \in SyncRequests :
     calls[r].pc = "done" /\ calls[r].kind = "pull" /\ calls[r].response.status = 200}

\* C32: the data of a pull without force holds the datasets of a version
\* counter exactly when the branch's counter was behind the latest version
\* when the pull read them; with force it holds every gated dataset; orders,
\* shifts and waste logs are always in it, at most limit rows each.
C32_DatasetsGatedByVersion ==
  \A r \in AnsweredPulls :
    LET c == calls[r]
    IN /\ \A i \in 1..Len(VersionFields) :
            IF c.force \/ c.before[i] < c.latest[i]
            THEN Gated(VersionFields[i]) \subseteq c.response.data
            ELSE Gated(VersionFields[i]) \cap c.response.data = {}
       /\ AlwaysIncluded \subseteq c.response.data
       /\ c.response.rows <= c.limit

\* a pull without force was answered with the menu and without the users,
\* and a forced pull of a branch that was not behind with every dataset
C32_Witness ==
  /\ \E r \in AnsweredPulls :
       /\ ~calls[r].force
       /\ calls[r].limit < StoredRows
       /\ "menuItems" \in calls[r].response.data
       /\ "users" \notin calls[r].response.data
  /\ \E r \in AnsweredPulls :
       /\ calls[r].force
       /\ calls[r].before = calls[r].latest
       /\ "users" \in calls[r].response.data

\* C33: every pull and push request that has ended has a sync history entry
\* that was finalized exactly once; after a failed request the entry is
\* FAILED, with a completion time and error details.
C33_HistoryFinalizedOnce ==
  \A r \in SyncRequests :
    calls[r].pc = "done" =>
      \E e \in syncHistory :
        /\ e.id = r
        /\ e.syncCompletedAt
        /\ e.updates = 1
        /\ calls[r].response.status /= 200 =>
             (e.status = "FAILED" /\ e.errorDetails)

\* C39: a pull without force that is answered with data, while no other
\* request has changed a version counter since the pull read them, leaves
\* every counter of a delivered dataset equal to the latest version.
C39_PullClearsPendingDownloads ==
  [][\A r \in SyncRequests :
       (/\ PullRequestEnd(r, 0)
        /\ ~calls[r].force
        /\ \A i \in 1..Len(VersionFields) :
             /\ calls[r].before[i] = versions[calls[r].branchId][VersionFields[i]]
             /\ calls[r].latest[i] = getLatestVersion(VersionFields[i], versions))
       => \A f \in calls[r].pendingDownloads :
            versions'[calls[r].branchId][f] = getLatestVersion(f, versions')]_vars

----------------------------------------------------------------------------
(* Claims about the end of a pass (specifications RetrySpec and Spec) *)

\* C34: every call of syncAll returns in the end, also when every batch-push
\* request of the pass fails while operations are queued.
C34_EveryPassReturns ==
  \A p \in Passes : (pc[p] /= "idle") ~> (pc[p] = "idle")

\* C40: the result of a pass counts what the server reported: after an
\* answered batch-push request operationsProcessed has grown by the processed
\* count of the answer and operationsFailed by its failed count, and after a
\* request that failed operationsFailed has grown by the size of the batch.
C40_ResultCountsWhatServerReported ==
  [][\A p \in Passes, net \in NetOutcomes :
       PushBatchReturn(p, net) =>
         LET r == Fetch(batch[p], net).resp
         IN IF r.ok
            THEN /\ result'[p].operationsProcessed =
                      result[p].operationsProcessed + r.processed
                 /\ result'[p].operationsFailed = result[p].operationsFailed + r.failed
            ELSE /\ result'[p].operationsProcessed = result[p].operationsProcessed
                 /\ result'[p].operationsFailed =
                      result[p].operationsFailed + Len(batch[p].operations)]_vars

----------------------------------------------------------------------------
(* Claims about the lock after a call has ended (specification ListenerSpec) *)

\* C35: the sync lock is never leaked: when the lock is set and no syncAll call
\* is running any more, however the calls ended, the lock is released in the
\* end.
C35_LockNeverLeaked ==
  (isSyncing /\ \A p \in Passes : pc[p] = "idle") ~> ~isSyncing

----------------------------------------------------------------------------
(* Claims about the connectivity monitor (specification LockSpec) *)

\* C37: for every interleaving of online and offline events, once every event
\* handler and every pass has finished, the monitor, the timer and the
\* broadcast status agree: when the monitor is Offline the periodic timer is
\* stopped and the last broadcast status is OFFLINE, and when it is Online the
\* periodic timer is running.
C37_MonitorTimerAndStatusAgree ==
  (initialized /\ \A p \in Passes : pc[p] = "idle") =>
     IF isOnline
     THEN syncInterval
     ELSE ~syncInterval /\ syncStatus = "OFFLINE"

====
